---- MODULE Spec2Model ----
(***************************************************************************)
(* Saga orchestration of the BFF service: the saga log repository          *)
(* (bff-service/src/infrastructure/saga_log.py), the orchestrator          *)
(* (bff-service/src/infrastructure/orchestrators.py) and the saga routes   *)
(* (bff-service/src/entrypoints/routes.py).                                *)
(*                                                                         *)
(* The service runs as one asyncio event loop (app/main.py:75).  A         *)
(* coroutine gives up the loop only inside a gateway call (httpx); the      *)
(* repository methods are declared async but contain no await, so a        *)
(* log_step or get_saga call runs to its commit without yielding.  The     *)
(* program counter of a saga task is therefore either a gateway call in    *)
(* flight ("gw_...", a suspension point) or a repository write that the     *)
(* running coroutine is about to make ("log_...").                         *)
(***************************************************************************)
EXTENDS Integers, Sequences, FiniteSets, TLC

\* ---------------------------------------------------------------- bounds
MaxLogFaults == 2
MaxManual == 2

SagaIds == {"s1"}
UnknownIds == {"zz"}

\* ----------------------------------------------------------- step names
\* A step name is the sequence of its underscore-separated words, so that
\* the prefixing of log_compensation and the suffix test of log_step are
\* computed on the name itself.
create_base_content == <<"create", "base", "content">>
create_affiliate == <<"create", "affiliate">>
create_collaboration == <<"create", "collaboration">>
register_metrics == <<"register", "metrics">>
saga_completed_final == <<"saga", "completed", "final">>
saga_compensation_started == <<"saga", "compensation", "started">>
compensate_create_content == <<"compensate", "create", "content">>
compensate_create_affiliate == <<"compensate", "create", "affiliate">>

\* f"compensate_{step_name}"
compensate_prefix(step_name) == <<"compensate">> \o step_name

\* a suffix test for the wrong word
endswith_final_wrong_suffix(step_name) ==
    Len(step_name) >= 2 /\ step_name[Len(step_name)] = "completed"

\* step_name.endswith("_final")
endswith_final(step_name) ==
    Len(step_name) >= 2 /\ step_name[Len(step_name)] = "final"

\* "compensate" in step_name, as the experiments detect a compensation
is_compensation(step_name) ==
    \E i \in 1..Len(step_name) : step_name[i] = "compensate"

SagaStatus == {"STARTED", "STEP_COMPLETED", "COMPENSATING", "COMPLETED", "FAILED"}

SagaStep(step_name, status) == [step_name |-> step_name, status |-> status]

NoSaga == [absent |-> TRUE]

VARIABLES
    sagas,      \* the saga_logs table: id -> row [status, steps] or NoSaga
    task,       \* id -> program counter of the background orchestrator task
    calls,      \* id -> gateway calls that have returned, in order
    response,   \* the last HTTP response of the status / compensate routes
    acked,      \* id -> steps of the log_step calls that returned normally
    logFaults,  \* number of repository writes that raised so far
    manual,     \* id -> number of compensate requests handled
    outcomes    \* id -> how each gateway call that has returned ended

vars == <<sagas, task, calls, response, acked, logFaults, manual, outcomes>>

VARIABLES
    afiliados,   \* the afiliados table: committed version of the aggregate row
    outbox,      \* the outbox_events table: event id -> row or NoEvent
    session,     \* the command side's session: writes not yet committed
    is_running,  \* OutboxService.is_running; FALSE while the process is down
    pc,          \* position of the dispatcher loop task
    batch,       \* the pending events the current pass has read
    idx,         \* position of the current event in batch
    event,       \* the current event object as the pass holds it in memory
    handled,     \* events the current pass has been through
    now,         \* datetime.utcnow(), in seconds
    env,         \* "flaky": a publish may fail and a commit may raise;
                 \* "settled": the transport accepts and the database commits
    published,   \* event id -> publishes of it that returned success
    cleaned,     \* events the cleanup pass has deleted
    unrecorded,  \* events with a successful publish that was not stored and
                 \* no publish attempt since
    crashes      \* number of crashes of the process so far

outboxVars == <<afiliados, outbox, session, is_running, pc, batch, idx, event,
                handled, now, env, published, cleaned,
                unrecorded, crashes>>

VARIABLES
    message,       \* the message the consumer loop is processing
    cpc,           \* position of the consumer loop in _process_message
    domain_event,  \* what the topic's mapper returned for the message
    error,         \* the exception the except block has caught
    broker,        \* the calls made on the Pulsar consumer for the message
    invoked        \* number of times the domain handler was invoked for it

consumerVars == <<message, cpc, domain_event, error, broker, invoked>>

VARIABLES
    consumer_service,   \* the service whose consumers were started
    consumers_running,  \* is_running of the consumer service
    tasks,              \* consumer_tasks: task -> where the task is and
                        \* the locals of its _consume_topic_with_retry
    stopper             \* position of the stop_all_consumers call

lifecycleVars == <<consumer_service, consumers_running, tasks, stopper>>

VARIABLES
    loop_tasks,      \* the _process_outbox_loop tasks that still take steps
    loops_cancelled  \* number of stop_processing calls that cancelled one

taskVars == <<loop_tasks, loops_cancelled>>

VARIABLES
    write_row,       \* the committed row of one aggregate in its write table
    write_sessions,  \* command session -> its transaction on that row
    applied          \* the updates committed so far, in commit order

writeVars == <<write_row, write_sessions, applied>>

VARIABLES
    saga_steps,  \* the committed steps column of one saga_logs row
    writers,     \* writer -> where its log_step call is, and its locals
    clock        \* datetime.now(timezone.utc)

timelineVars == <<saga_steps, writers, clock>>

VARIABLES
    uow,      \* the UnidadTrabajoPulsar: its batches and how commit ended
    signals   \* the signals dispatcher.send has delivered, in order

uowVars == <<uow, signals>>

serviceVars == <<vars, outboxVars, consumerVars, lifecycleVars>>

allVars == <<vars, outboxVars, consumerVars, lifecycleVars,
             taskVars, writeVars, timelineVars, uowVars>>

AllIds == SagaIds \cup UnknownIds

YieldPcs == {"none", "gw_1", "gw_2", "gw_3", "gw_4", "gw_c1", "gw_c2",
             "returned_true", "returned_false", "raised"}

\* The event loop is free: every task is suspended, finished or not begun.
Yielded == \A j \in SagaIds : task[j] \in YieldPcs

\* ------------------------------------------------------ SagaLogRepository
\* the status update of log_step
UpdateStatus(step_name, status) ==
    IF status = "FAILED" THEN "FAILED"
    ELSE IF status = "COMPLETED" /\ endswith_final(step_name) THEN "COMPLETED"
    ELSE IF status = "COMPENSATING" THEN "COMPENSATING"
    ELSE "STEP_COMPLETED"

\* a row that is stored as if a step had already run
start_saga_after_step == [status |-> "STEP_COMPLETED", steps |-> <<>>]

\* the row that start_saga commits
start_saga == [status |-> "STARTED", steps |-> <<>>]

\* a commit that appends the step and leaves the status column as it was
log_step_row_stale_status(row, step_name, status) ==
    [status |-> row.status,
     steps |-> Append(row.steps, SagaStep(step_name, status))]

\* a commit that updates the status and loses the append
log_step_row_append_lost(row, step_name, status) ==
    [status |-> UpdateStatus(step_name, status),
     steps |-> row.steps]

\* a commit that stores the new step in place of the list
log_step_row_overwrite(row, step_name, status) ==
    [status |-> UpdateStatus(step_name, status),
     steps |-> <<SagaStep(step_name, status)>>]

\* the row that a log_step call commits, given the row it read
log_step_row(row, step_name, status) ==
    [status |-> UpdateStatus(step_name, status),
     steps |-> Append(row.steps, SagaStep(step_name, status))]

\* log_step(saga_id, step_name, status) returning normally: one commit
log_step(id, step_name, status) ==
    /\ sagas[id] # NoSaga
    /\ sagas' = [sagas EXCEPT ![id] = log_step_row(@, step_name, status)]
    /\ acked' = [acked EXCEPT ![id] = Append(@, SagaStep(step_name, status))]
    /\ UNCHANGED logFaults

\* log_step raising: the session is rolled back and the error re-raised
log_step_raises ==
    /\ logFaults < MaxLogFaults
    /\ logFaults' = logFaults + 1
    /\ UNCHANGED <<sagas, acked>>

\* log_compensation(saga_id, step_name, ...)
log_compensation(id, step_name) ==
    log_step(id, compensate_prefix(step_name), "COMPENSATING")

\* session.query(SagaLogModel).filter_by(id=saga_id).first()
first(id) == IF id \in SagaIds THEN sagas[id] ELSE NoSaga

\* get_saga(saga_id): what the call may return. The row that the query
\* read, None when there is none, and None as well when the query or the
\* conversion of the row raised: the except block returns None.
get_saga(id) == {first(id), NoSaga}

\* session.query(...).count()
count(S) == Cardinality(S)

\* the rows of the saga_logs table
StoredIds == {id \in SagaIds : sagas[id] # NoSaga}

\* the saga_type that the only caller of start_saga passes
CompleteAffiliateRegistration == "CompleteAffiliateRegistration"

\* the values that .label(...) can be called on: column expressions; the
\* int that Query.count() returns is not one of them
has_label(kind) == kind = "ColumnElement"

\* get_saga_statistics(): the counts per status are computed first; the
\* query of the counts per type calls .label on the result of .count(),
\* and the except block returns the error in place of the statistics.
get_saga_statistics ==
    LET status_counts ==
            [s \in SagaStatus |->
                count({id \in StoredIds : sagas[id].status = s})]
        type_counts ==
            [t \in {CompleteAffiliateRegistration} |-> count(StoredIds)]
    IN IF has_label("int")
       THEN [total_sagas |-> count(StoredIds),
             by_status |-> status_counts,
             by_type |-> type_counts]
       ELSE [error |-> "AttributeError"]

\* --------------------------------------------------------- SagaOrchestrator
\* How a request to a service ends: with a 2xx response, with a timeout,
\* with another status, or with a transport error.
Outcomes == {"ok", "timeout", "http_status", "transport"}

\* a client that answers a timeout with an empty result
make_request_swallows_timeout(outcome) ==
    CASE outcome = "ok" -> "returns"
      [] outcome = "timeout" -> "returns"
      [] outcome = "http_status" -> "Exception"
      [] OTHER -> "Exception"

\* _make_request: the body of a 2xx response is returned; TimeoutException,
\* HTTPStatusError and every other exception are raised again as Exception.
make_request(outcome) ==
    CASE outcome = "ok" -> "returns"
      [] outcome = "timeout" -> "Exception"
      [] outcome = "http_status" -> "Exception"
      [] OTHER -> "Exception"

\* A gateway call of the task returns, with success or with an exception.
GatewayCall(id, pcHere, name, pcOk, pcFail) ==
    /\ task[id] = pcHere
    /\ Yielded
    /\ \E outcome \in Outcomes :
          LET ok == make_request(outcome) = "returns"
          IN /\ calls' = [calls EXCEPT ![id] = Append(@, [name |-> name, ok |-> ok])]
             /\ outcomes' = [outcomes EXCEPT ![id] = Append(@, outcome)]
             /\ task' = [task EXCEPT ![id] = IF ok THEN pcOk ELSE pcFail]
    /\ UNCHANGED <<sagas, response, acked, logFaults, manual>>
    /\ UNCHANGED <<outboxVars, consumerVars, lifecycleVars, taskVars, writeVars, timelineVars, uowVars>>

\* The task awaits log_step at pcHere and goes on at pcOk, or at pcRaise
\* when log_step raised.
LogCall(id, pcHere, step_name, status, pcOk, pcRaise) ==
    /\ task[id] = pcHere
    /\ \/ /\ log_step(id, step_name, status)
          /\ task' = [task EXCEPT ![id] = pcOk]
       \/ /\ log_step_raises
          /\ task' = [task EXCEPT ![id] = pcRaise]
    /\ UNCHANGED <<calls, response, manual, outcomes>>
    /\ UNCHANGED <<outboxVars, consumerVars, lifecycleVars, taskVars, writeVars, timelineVars, uowVars>>

\* compensate_saga called by the task at pcHere
compensate_saga(id, pcHere, pcOk, pcRaise) ==
    /\ task[id] = pcHere
    /\ \/ /\ log_compensation(id, saga_compensation_started)
          /\ task' = [task EXCEPT ![id] = pcOk]
       \/ /\ log_step_raises
          /\ task' = [task EXCEPT ![id] = pcRaise]
    /\ UNCHANGED <<calls, response, manual, outcomes>>
    /\ UNCHANGED <<outboxVars, consumerVars, lifecycleVars, taskVars, writeVars, timelineVars, uowVars>>

\* a first step that goes on when the log of its COMPLETED entry raised
step_1_create_base_content_unlogged(id, pcSuccess, pcFailure, pcRaise) ==
    \/ GatewayCall(id, "gw_1", "create_content", "log_ok_1", "log_fail_1")
    \/ LogCall(id, "log_ok_1", create_base_content, "COMPLETED", pcSuccess, pcSuccess)
    \/ LogCall(id, "log_fail_1", create_base_content, "FAILED", pcFailure, pcRaise)

step_1_create_base_content(id, pcSuccess, pcFailure, pcRaise) ==
    \/ GatewayCall(id, "gw_1", "create_content", "log_ok_1", "log_fail_1")
    \/ LogCall(id, "log_ok_1", create_base_content, "COMPLETED", pcSuccess, "log_fail_1")
    \/ LogCall(id, "log_fail_1", create_base_content, "FAILED", pcFailure, pcRaise)

step_2_create_affiliate(id, pcSuccess, pcFailure, pcRaise) ==
    \/ GatewayCall(id, "gw_2", "create_affiliate", "log_ok_2", "log_fail_2")
    \/ LogCall(id, "log_ok_2", create_affiliate, "COMPLETED", pcSuccess, "log_fail_2")
    \/ LogCall(id, "log_fail_2", create_affiliate, "FAILED", pcFailure, pcRaise)

step_3_create_collaboration(id, pcSuccess, pcFailure, pcRaise) ==
    \/ GatewayCall(id, "gw_3", "create_collaboration", "log_ok_3", "log_fail_3")
    \/ LogCall(id, "log_ok_3", create_collaboration, "COMPLETED", pcSuccess, "log_fail_3")
    \/ LogCall(id, "log_fail_3", create_collaboration, "FAILED", pcFailure, pcRaise)

step_4_register_metrics(id, pcSuccess, pcFailure, pcRaise) ==
    \/ GatewayCall(id, "gw_4", "register_metrics", "log_ok_4", "log_fail_4")
    \/ LogCall(id, "log_ok_4", register_metrics, "COMPLETED", pcSuccess, "log_fail_4")
    \/ LogCall(id, "log_fail_4", register_metrics, "FAILED", pcFailure, pcRaise)

\* step_data of a successful step always holds the id key that the
\* compensation tests for (service_clients.py:78-82, 108-113)
compensate_step_1(id, pcNext, pcRaise) ==
    \/ GatewayCall(id, "gw_c1", "delete_content", "log_c1_ok", "log_c1_fail")
    \/ LogCall(id, "log_c1_ok", compensate_create_content, "COMPLETED", pcNext, "log_c1_fail")
    \/ LogCall(id, "log_c1_fail", compensate_create_content, "FAILED", pcNext, pcRaise)

\* a compensation of step 2 whose failure ends the unwind
compensate_step_2_aborts(id, pcNext, pcRaise) ==
    \/ GatewayCall(id, "gw_c2", "deactivate_affiliate", "log_c2_ok", "log_c2_fail")
    \/ LogCall(id, "log_c2_ok", compensate_create_affiliate, "COMPLETED", pcNext, "log_c2_fail")
    \/ LogCall(id, "log_c2_fail", compensate_create_affiliate, "FAILED", "log_marker", pcRaise)

compensate_step_2(id, pcNext, pcRaise) ==
    \/ GatewayCall(id, "gw_c2", "deactivate_affiliate", "log_c2_ok", "log_c2_fail")
    \/ LogCall(id, "log_c2_ok", compensate_create_affiliate, "COMPLETED", pcNext, "log_c2_fail")
    \/ LogCall(id, "log_c2_fail", compensate_create_affiliate, "FAILED", pcNext, pcRaise)

\* an unwind of step 3 that leaves out the compensation of step 2
on_step_3_failed_skips_step_2 == "gw_c1"

\* a metrics failure handled as the failure of a critical step
on_step_4_failed_compensates == "gw_c2"

\* where the orchestrator goes on after a failed step
on_step_1_failed == "log_marker"
on_step_2_failed == "gw_c1"
on_step_3_failed == "gw_c2"
on_step_4_failed == "log_final"

execute_complete_affiliate_registration(id) ==
    \/ step_1_create_base_content(id, "gw_2", on_step_1_failed, "log_outer")
    \/ step_2_create_affiliate(id, "gw_3", on_step_2_failed, "log_outer")
    \/ step_3_create_collaboration(id, "gw_4", on_step_3_failed, "log_outer")
    \/ compensate_step_2(id, "gw_c1", "log_outer")
    \/ compensate_step_1(id, "log_marker", "log_outer")
    \/ compensate_saga(id, "log_marker", "returned_false", "log_outer")
    \/ step_4_register_metrics(id, "log_final", on_step_4_failed, "log_outer")
    \/ LogCall(id, "log_final", saga_completed_final, "COMPLETED", "returned_true", "log_outer")
    \/ compensate_saga(id, "log_outer", "returned_false", "raised")

\* ------------------------------------------------------------------ routes
\* POST /sagas/complete-affiliate-registration
\* start_saga commits the row, the orchestrator is added as a background
\* task and the response is returned; or start_saga raises, and the route
\* answers 500 with no row stored and no task added.
complete_affiliate_registration(id) ==
    /\ Yielded
    /\ sagas[id] = NoSaga
    /\ \/ /\ sagas' = [sagas EXCEPT ![id] = start_saga]
          /\ task' = [task EXCEPT ![id] = "gw_1"]
          /\ response' = [route |-> "start", id |-> id, code |-> 200,
                          status |-> "STARTED"]
          /\ UNCHANGED <<acked, logFaults>>
       \/ /\ log_step_raises
          /\ response' = [route |-> "start", id |-> id, code |-> 500]
          /\ UNCHANGED task
    /\ UNCHANGED <<calls, manual, outcomes>>
    /\ UNCHANGED <<outboxVars, consumerVars, lifecycleVars, taskVars, writeVars, timelineVars, uowVars>>

\* GET /sagas/{saga_id}/status
get_saga_status(id) ==
    /\ Yielded
    /\ \E saga \in get_saga(id) :
          response' = IF saga = NoSaga
                      THEN [route |-> "status", id |-> id, code |-> 404]
                      ELSE [route |-> "status", id |-> id, code |-> 200,
                            status |-> saga.status, steps |-> saga.steps]
    /\ UNCHANGED <<sagas, task, calls, acked, logFaults, manual, outcomes>>
    /\ UNCHANGED <<outboxVars, consumerVars, lifecycleVars, taskVars, writeVars, timelineVars, uowVars>>

\* POST /sagas/{saga_id}/compensate
trigger_compensation(id) ==
    /\ Yielded
    /\ \E saga \in get_saga(id) :
          IF saga = NoSaga
          THEN /\ response' = [route |-> "compensate", id |-> id, code |-> 404]
               /\ UNCHANGED <<sagas, acked, logFaults, manual>>
          ELSE /\ manual[id] < MaxManual
               /\ manual' = [manual EXCEPT ![id] = @ + 1]
               /\ \/ /\ log_compensation(id, saga_compensation_started)
                     /\ response' = [route |-> "compensate", id |-> id, code |-> 200]
                  \/ /\ log_step_raises
                     /\ response' = [route |-> "compensate", id |-> id, code |-> 500]
    /\ UNCHANGED <<task, calls, outcomes>>
    /\ UNCHANGED <<outboxVars, consumerVars, lifecycleVars, taskVars, writeVars, timelineVars, uowVars>>

\* GET /sagas/statistics: the route returns what the repository returned
GET_sagas_statistics ==
    /\ Yielded
    /\ response' = [route |-> "statistics", code |-> 200,
                    body |-> get_saga_statistics]
    /\ UNCHANGED <<sagas, task, calls, acked, logFaults, manual, outcomes>>
    /\ UNCHANGED <<outboxVars, consumerVars, lifecycleVars, taskVars, writeVars, timelineVars, uowVars>>

\* ------------------------------------------------------------------ outbox
\* The afiliados-comisiones service: the command repositories write the
\* aggregate row and the outbox rows of its events into one session, and the
\* OutboxService loop publishes, retries and cleans the outbox_events table.
\* An ORM object is the record the code holds in memory; session.commit()
\* stores it whole or raises and stores nothing.
max_retries == 5
maxBackoff == 300
batch_size == 100
retry_limit == 50
Day == 86400
retention_days == 7

\* Crashes of the process in one behaviour.
MaxCrashes == 1

\* Calls of stop_processing in one behaviour.
MaxStops == 2

\* The instants the clock is read at. For an event created at 0: its first
\* backoff ends at 2, the backoff of max_retries failures ends at 32, the
\* retry pass gives it up at Day, and the cleanup pass deletes it at the last
\* instant if it was processed before 32.
Instants == {0, 2, 32, Day, retention_days * Day + 32}

\* The instants at which the callers of the repositories commit.
CommandInstants == {0}

EventIds == {"e1", "e2"}

None == -1
NoEvent == [absent |-> TRUE]
OutboxEvent(aggregate_type, created) ==
    [status |-> "pending", retry_count |-> 0, created_at |-> created,
     processed_at |-> None, aggregate_type |-> aggregate_type]

Min(a, b) == IF a <= b THEN a ELSE b
Stored(e) == outbox[e] # NoEvent

\* .order_by(OutboxEvent.created_at): the orders the database may return.
order_by_created_at(S) ==
    {q \in [1..Cardinality(S) -> S] :
        /\ \A i, j \in 1..Cardinality(S) : i # j => q[i] # q[j]
        /\ \A i, j \in 1..Cardinality(S) :
              i < j => outbox[q[i]].created_at <= outbox[q[j]].created_at}
\* a query without its limit
limit_ignored(q, n) == q

\* .limit(n)
limit(q, n) == SubSeq(q, 1, Min(n, Len(q)))

\* ---- command repositories
NoWrites == [version |-> 0, events |-> {}]
visible_version == IF session.version # 0 THEN session.version ELSE afiliados

save_events_to_outbox_forgets(s, eventos) == s
save_events_to_outbox(s, eventos) == [s EXCEPT !.events = @ \cup eventos]

add ==
    /\ pc # "crashed"
    /\ visible_version = 0
    /\ session' = save_events_to_outbox([session EXCEPT !.version = 1], {"e1"})
    /\ UNCHANGED <<afiliados, outbox, is_running, pc, batch, idx, event,
                   handled, now, env, published, cleaned,
                   crashes>>
    /\ UNCHANGED unrecorded
    /\ UNCHANGED <<vars, consumerVars, lifecycleVars, taskVars, writeVars, timelineVars, uowVars>>

update ==
    /\ pc # "crashed"
    /\ visible_version = 1
    /\ session' = save_events_to_outbox([session EXCEPT !.version = 2], {"e2"})
    /\ UNCHANGED <<afiliados, outbox, is_running, pc, batch, idx, event,
                   handled, now, env, published, cleaned,
                   crashes>>
    /\ UNCHANGED unrecorded
    /\ UNCHANGED <<vars, consumerVars, lifecycleVars, taskVars, writeVars, timelineVars, uowVars>>

\* The caller of the repository ends the transaction.
session_commit ==
    /\ pc # "crashed"
    /\ now \in CommandInstants
    /\ session # NoWrites
    /\ afiliados' = session.version
    /\ outbox' = [e \in EventIds |->
                    IF e \in session.events
                    THEN OutboxEvent("Afiliado", now) ELSE outbox[e]]
    /\ session' = NoWrites
    /\ UNCHANGED <<is_running, pc, batch, idx, event, handled, now, env, published, cleaned, crashes>>
    /\ UNCHANGED unrecorded
    /\ UNCHANGED <<vars, consumerVars, lifecycleVars, taskVars, writeVars, timelineVars, uowVars>>

session_rollback ==
    /\ pc # "crashed"
    /\ session # NoWrites
    /\ session' = NoWrites
    /\ UNCHANGED <<afiliados, outbox, is_running, pc, batch, idx, event,
                   handled, now, env, published, cleaned,
                   crashes>>
    /\ UNCHANGED unrecorded
    /\ UNCHANGED <<vars, consumerVars, lifecycleVars, taskVars, writeVars, timelineVars, uowVars>>

\* ---- OutboxService
Bump(n) == Min(2, n + 1)

\* a guard that lets every call through
already_running_never(running) == FALSE

\* if self.is_running: return
already_running(running) == running

\* start_processing returns at once when the service is already running;
\* otherwise it sets is_running and creates the task of the loop. It can be
\* called again after stop_processing.
start_processing ==
    /\ pc # "crashed"
    /\ IF already_running(is_running)
       THEN UNCHANGED <<is_running, pc, loop_tasks>>
       ELSE /\ is_running' = TRUE
            /\ pc' = "poll"
            /\ loop_tasks' = loop_tasks + 1
    /\ UNCHANGED <<afiliados, outbox, session, batch, idx, event, handled, now,
                   env, published, cleaned, crashes>>
    /\ UNCHANGED unrecorded
    /\ UNCHANGED loops_cancelled
    /\ UNCHANGED <<vars, consumerVars, lifecycleVars, writeVars, timelineVars, uowVars>>

pending_batches_wrong_status ==
    LET failed == {e \in EventIds : Stored(e) /\ outbox[e].status = "failed"}
    IN  {limit(q, batch_size) : q \in order_by_created_at(failed)}

\* The query of a pass: the pending events, oldest first.
pending_batches ==
    LET pending == {e \in EventIds : Stored(e) /\ outbox[e].status = "pending"}
    IN  {limit(q, batch_size) : q \in order_by_created_at(pending)}

\* The query of a pass that was called with another batch_size.
pending_events(n) == {limit(q, n) : q \in pending_batches}

\* process_pending_events(batch_size = n), up to the first event of the batch.
process_pending_events_of(n) ==
    /\ is_running
    /\ pc = "poll"
    /\ handled' = {}
    /\ \/ \E q \in pending_events(n) :
            /\ batch' = q
            /\ idx' = 1
            /\ pc' = IF q = <<>> THEN "cleanup" ELSE "publish"
       \/ /\ env = "flaky"
          /\ batch' = <<>>
          /\ idx' = 1
          /\ pc' = "cleanup"
    /\ UNCHANGED <<afiliados, outbox, session, is_running, event, now,
                   env, published, cleaned, crashes>>
    /\ UNCHANGED unrecorded
    /\ UNCHANGED <<vars, consumerVars, lifecycleVars, taskVars, writeVars, timelineVars, uowVars>>

process_pending_events ==
    /\ is_running
    /\ pc = "poll"
    /\ handled' = {}
    /\ \/ \E q \in pending_batches :
            /\ batch' = q
            /\ idx' = 1
            /\ pc' = IF q = <<>> THEN "cleanup" ELSE "publish"
       \/ /\ env = "flaky"
          /\ batch' = <<>>
          /\ idx' = 1
          /\ pc' = "cleanup"
    /\ UNCHANGED <<afiliados, outbox, session, is_running, event, now,
                   env, published, cleaned, crashes>>
    /\ UNCHANGED unrecorded
    /\ UNCHANGED <<vars, consumerVars, lifecycleVars, taskVars, writeVars, timelineVars, uowVars>>

\* The marks the pass puts on the event object after the publish.
mark_published_ignores_result(ev, success) ==
    [ev EXCEPT !.status = "processed", !.processed_at = now]
mark_published(ev, success) ==
    IF success
    THEN [ev EXCEPT !.status = "processed", !.processed_at = now]
    ELSE [ev EXCEPT !.status = "failed", !.retry_count = @ + 1]

\* the topics of the aggregate types
topic_mapping ==
    [Afiliado |-> "affiliate-events", Conversion |-> "conversion-events",
     Comision |-> "commission-events"]

\* a lookup that falls back on the first topic
get_first_topic(d, k) == IF k \in DOMAIN d THEN d[k] ELSE "affiliate-events"

\* dict.get(k): the value of the key, or None
get(d, k) == IF k \in DOMAIN d THEN d[k] ELSE "None"

\* What _publish_event_by_type may return: False without a publish for an
\* aggregate type that has no topic, else what the publisher returns.
publish_event_by_type(aggregate_type) ==
    LET topic == get(topic_mapping, aggregate_type)
    IN  IF topic = "None" THEN {FALSE}
        ELSE IF env = "settled" THEN {TRUE} ELSE BOOLEAN

\* The publish of the current event and the marks put on the object.
process_single_event ==
    /\ is_running
    /\ pc = "publish"
    /\ LET e == batch[idx] IN
       \E success \in publish_event_by_type(outbox[e].aggregate_type) :
          /\ event' = mark_published(outbox[e], success)
          /\ published' = IF success THEN [published EXCEPT ![e] = Bump(@)]
                          ELSE published
          /\ unrecorded' = unrecorded \ {e}
    /\ pc' = "commit"
    /\ UNCHANGED <<afiliados, outbox, session, is_running, batch, idx, handled,
                   now, env, cleaned, crashes>>
    /\ UNCHANGED <<vars, consumerVars, lifecycleVars, taskVars, writeVars, timelineVars, uowVars>>

\* Where the pass goes on once the except block has rolled back the event at
\* position i: at the next event of the batch.
after_rollback_aborts(i) == Len(batch) + 1
after_rollback(i) == i + 1

\* What the except block leaves on the object.
mark_failed(ev) == [ev EXCEPT !.status = "failed", !.retry_count = @ + 1]

\* The event a pass has published with success and not yet stored.
PublishedInFlight ==
    IF pc = "commit" /\ event.status = "processed" THEN {batch[idx]} ELSE {}

commit_event ==
    /\ is_running
    /\ pc = "commit"
    /\ LET e == batch[idx] IN
       \/ /\ outbox' = [outbox EXCEPT ![e] = event]
          /\ idx' = idx + 1
          /\ unrecorded' = unrecorded
       \/ /\ env = "flaky"
          /\ outbox' = [outbox EXCEPT ![e] = mark_failed(event)]
          /\ idx' = idx + 1
          /\ unrecorded' = unrecorded \cup PublishedInFlight
       \/ /\ env = "flaky"
          /\ outbox' = outbox
          /\ idx' = after_rollback(idx)
          /\ unrecorded' = unrecorded \cup PublishedInFlight
    /\ handled' = handled \cup {batch[idx]}
    /\ pc' = IF idx' > Len(batch) THEN "cleanup" ELSE "publish"
    /\ event' = NoEvent
    /\ UNCHANGED <<afiliados, session, is_running, batch, now, env,
                   published, cleaned, crashes>>
    /\ UNCHANGED <<vars, consumerVars, lifecycleVars, taskVars, writeVars, timelineVars, uowVars>>

\* The filter of the cleanup pass.
to_delete_any_status(ev, cutoff_date) ==
    ev.processed_at # None /\ ev.processed_at < cutoff_date
to_delete(ev, cutoff_date) ==
    ev.status = "processed" /\ ev.processed_at < cutoff_date

cleanup_processed_events ==
    /\ is_running
    /\ pc = "cleanup"
    /\ LET cutoff_date == now - retention_days * Day
           old == {e \in EventIds : Stored(e) /\ to_delete(outbox[e], cutoff_date)}
       IN  \/ /\ outbox' = [e \in EventIds |->
                              IF e \in old THEN NoEvent ELSE outbox[e]]
              /\ cleaned' = cleaned \cup old
           \/ /\ env = "flaky"
              /\ UNCHANGED <<outbox, cleaned>>
    /\ pc' = "retry"
    /\ UNCHANGED <<afiliados, session, is_running, batch, idx, event, handled,
                   now, env, published, crashes>>
    /\ UNCHANGED unrecorded
    /\ UNCHANGED <<vars, consumerVars, lifecycleVars, taskVars, writeVars, timelineVars, uowVars>>

retry_events_includes_boundary ==
    LET cutoff_time == now - Day
        failed == {e \in EventIds : /\ Stored(e)
                                    /\ outbox[e].status = "failed"
                                    /\ outbox[e].retry_count <= max_retries
                                    /\ outbox[e].created_at > cutoff_time}
    IN  {limit(q, retry_limit) : q \in order_by_created_at(failed)}

\* The failed events the retry pass reads, and those of them it resets.
retry_events ==
    LET cutoff_time == now - Day
        failed == {e \in EventIds : /\ Stored(e)
                                    /\ outbox[e].status = "failed"
                                    /\ outbox[e].retry_count < max_retries
                                    /\ outbox[e].created_at > cutoff_time}
    IN  {limit(q, retry_limit) : q \in order_by_created_at(failed)}

delay_seconds(ev) == Min(maxBackoff, 2 ^ ev.retry_count)
retry_due_strict(ev) == ev.created_at + delay_seconds(ev) < now
retry_due(ev) == ev.created_at + delay_seconds(ev) <= now

\* a re-queueing that starts the count of failures again
requeue_resets_count(ev) == [ev EXCEPT !.status = "pending", !.retry_count = 0]

\* event.status = 'pending'; event.error_message = None
requeue(ev) == [ev EXCEPT !.status = "pending"]

retry_failed_events ==
    /\ is_running
    /\ pc = "retry"
    /\ \/ \E q \in retry_events :
            outbox' = [e \in EventIds |->
                         IF (\E i \in 1..Len(q) : q[i] = e) /\ retry_due(outbox[e])
                         THEN requeue(outbox[e])
                         ELSE outbox[e]]
       \/ /\ env = "flaky"
          /\ outbox' = outbox
    /\ pc' = "poll"
    /\ UNCHANGED <<afiliados, session, is_running, batch, idx, event, handled,
                   now, env, published, cleaned, crashes>>
    /\ UNCHANGED unrecorded
    /\ UNCHANGED <<vars, consumerVars, lifecycleVars, taskVars, writeVars, timelineVars, uowVars>>

\* ---- the process and its environment
crash ==
    /\ pc # "crashed"
    /\ crashes < MaxCrashes
    /\ crashes' = crashes + 1
    /\ pc' = "crashed"
    /\ is_running' = FALSE
    /\ session' = NoWrites
    /\ batch' = <<>>
    /\ idx' = 1
    /\ event' = NoEvent
    /\ handled' = {}
    /\ unrecorded' = unrecorded \cup PublishedInFlight
    /\ loop_tasks' = 0
    /\ UNCHANGED <<afiliados, outbox, now, env, published,
                   cleaned>>
    /\ UNCHANGED loops_cancelled
    /\ UNCHANGED <<vars, consumerVars, lifecycleVars, writeVars, timelineVars, uowVars>>

restart ==
    /\ pc = "crashed"
    /\ pc' = "none"
    /\ UNCHANGED <<afiliados, outbox, session, is_running, batch, idx, event,
                   handled, now, env, published, cleaned,
                   crashes>>
    /\ UNCHANGED unrecorded
    /\ UNCHANGED <<vars, consumerVars, lifecycleVars, taskVars, writeVars, timelineVars, uowVars>>

tick ==
    /\ pc \in {"none", "poll", "crashed"}
    /\ \E t \in Instants :
          /\ t > now
          /\ \A u \in Instants : u > now => t <= u
          /\ now' = t
    /\ UNCHANGED <<afiliados, outbox, session, is_running, pc, batch, idx,
                   event, handled, env, published, cleaned,
                   crashes>>
    /\ UNCHANGED unrecorded
    /\ UNCHANGED <<vars, consumerVars, lifecycleVars, taskVars, writeVars, timelineVars, uowVars>>

settles ==
    /\ env = "flaky"
    /\ env' = "settled"
    /\ UNCHANGED <<afiliados, outbox, session, is_running, pc, batch, idx,
                   event, handled, now, published, cleaned, crashes>>
    /\ UNCHANGED unrecorded
    /\ UNCHANGED <<vars, consumerVars, lifecycleVars, taskVars, writeVars, timelineVars, uowVars>>

OutboxNext ==
    \/ add
    \/ update
    \/ session_commit
    \/ session_rollback
    \/ start_processing
    \/ process_pending_events
    \/ process_single_event
    \/ commit_event
    \/ cleanup_processed_events
    \/ retry_failed_events
    \/ crash
    \/ restart
    \/ tick
    \/ settles

\* ---- the passes of the dispatcher over rows of every writer
\* aggregate_type of the _save_events_to_outbox of the three repositories
RepositoryTypes == {"Afiliado", "Conversion", "Comision"}

\* aggregate.__class__.__name__ of what publish_domain_events is given: the
\* three aggregate roots of the service, and a class of another service.
AggregateClasses == RepositoryTypes \cup {"Colaboracion"}

\* The instants at which rows are written, and the batch_size a pass is
\* called with.
WriteInstants == {0, 2}
BatchSizes == {1, batch_size}

\* The row of the next INSERT: ids are given in the order e1, e2.
EventOrder == <<"e1", "e2">>
Unused(e) == outbox[e] = NoEvent /\ e \notin cleaned
NextIds ==
    {EventOrder[i] : i \in {j \in 1..Len(EventOrder) :
                              /\ Unused(EventOrder[j])
                              /\ \A k \in 1..(j - 1) : ~Unused(EventOrder[k])}}

insert_event(aggregate_type) ==
    /\ now \in WriteInstants
    /\ \E e \in NextIds :
          outbox' = [outbox EXCEPT ![e] = OutboxEvent(aggregate_type, now)]
    /\ UNCHANGED <<afiliados, session, is_running, pc, batch, idx, event,
                   handled, now, env, published, cleaned, crashes>>
    /\ UNCHANGED unrecorded
    /\ UNCHANGED <<vars, consumerVars, lifecycleVars, taskVars, writeVars, timelineVars, uowVars>>

\* add of a command repository with an aggregate that has one event, and the
\* commit of its caller.
repository_add == \E aggregate_type \in RepositoryTypes : insert_event(aggregate_type)

\* OutboxEventPublisher.publish_domain_events with an aggregate that has one
\* event, and the commit of its caller.
publish_domain_events == \E class \in AggregateClasses : insert_event(class)

\* datetime.utcnow() between two passes, up to the last instant of a write
clock_advances ==
    /\ pc \in {"none", "poll"}
    /\ \E t \in WriteInstants :
          /\ t > now
          /\ \A u \in WriteInstants : u > now => t <= u
          /\ now' = t
    /\ UNCHANGED <<afiliados, outbox, session, is_running, pc, batch, idx,
                   event, handled, env, published, cleaned, crashes>>
    /\ UNCHANGED unrecorded
    /\ UNCHANGED <<vars, consumerVars, lifecycleVars, taskVars, writeVars, timelineVars, uowVars>>

PassNext ==
    \/ repository_add
    \/ publish_domain_events
    \/ start_processing
    \/ \E n \in BatchSizes : process_pending_events_of(n)
    \/ process_single_event
    \/ commit_event
    \/ cleanup_processed_events
    \/ retry_failed_events
    \/ clock_advances

\* --------------------------------------------------------------- consumers
\* EventConsumerService of afiliados-comisiones and of monitoreo: one loop per
\* topic receives a message, maps it, hands it to the domain handler and
\* acknowledges or negatively acknowledges it.
Services == {"afiliados", "monitoreo"}
Topics(service) ==
    IF service = "afiliados"
    THEN {"affiliate-events", "conversion-events", "commission-events"}
    ELSE {"conversion-events", "click-events"}
EventTypeNames ==
    {"AfiliadoCreado", "affiliate_activated", "ComisionCreada",
     "commission_paid", "desconocido"}

\* A payload: its event_type field, and whether the fields the mapper reads
\* parse (the ids are UUIDs, the amounts are numbers).
Messages ==
    {[service |-> s, topic |-> t, event_type |-> ty, well_formed |-> wf] :
        s \in Services, t \in {"affiliate-events", "conversion-events",
                              "commission-events", "click-events"},
        ty \in EventTypeNames, wf \in BOOLEAN}
NoMessage == [absent |-> TRUE]
NoDomainEvent == "None"

map_affiliate_event(pulsar_data) ==
    IF ~pulsar_data.well_formed THEN NoDomainEvent
    ELSE CASE pulsar_data.event_type = "AfiliadoCreado" -> "AfiliadoCreado"
           [] pulsar_data.event_type = "affiliate_activated" -> "AfiliadoActivado"
           [] OTHER -> NoDomainEvent

map_conversion_event(pulsar_data) ==
    IF ~pulsar_data.well_formed THEN NoDomainEvent ELSE "ConversionRegistrada"

map_commission_event(pulsar_data) ==
    IF ~pulsar_data.well_formed THEN NoDomainEvent
    ELSE CASE pulsar_data.event_type = "ComisionCreada" -> "ComisionCreada"
           [] pulsar_data.event_type = "commission_paid" -> "ComisionPagada"
           [] OTHER -> NoDomainEvent

\* PulsarEventMapper of monitoreo: a payload that does not parse becomes the
\* default event of the topic's type.
create_default_event(event_type) == event_type
monitoreo_map_event(event_type, pulsar_data) ==
    IF ~pulsar_data.well_formed THEN create_default_event(event_type)
    ELSE event_type

event_mapper(msg) ==
    IF msg.service = "afiliados"
    THEN CASE msg.topic = "affiliate-events" -> map_affiliate_event(msg)
           [] msg.topic = "conversion-events" -> map_conversion_event(msg)
           [] OTHER -> map_commission_event(msg)
    ELSE CASE msg.topic = "conversion-events" -> monitoreo_map_event("CONVERSION", msg)
           [] OTHER -> monitoreo_map_event("CLICK", msg)

\* Exception classes, each with the classes isinstance() finds it under.
ErrorClasses ==
    {"ConnectionError", "ConnectionRefusedError", "TimeoutError",
     "pulsar.ConnectError", "pulsar.TimeoutError", "ValueError",
     "JSONDecodeError", "KeyError", "AttributeError", "RuntimeError"}
mro(err) ==
    CASE err = "ConnectionRefusedError" -> {"ConnectionRefusedError", "ConnectionError"}
      [] err = "JSONDecodeError" -> {"JSONDecodeError", "ValueError"}
      [] OTHER -> {err}
isinstance(err, classes) == mro(err) \cap classes # {}

recoverable_errors(service) ==
    IF service = "afiliados"
    THEN {"ConnectionError", "TimeoutError", "pulsar.ConnectError", "pulsar.TimeoutError"}
    ELSE {"ConnectionError", "TimeoutError", "pulsar.ConnectError"}
non_recoverable_errors == {"ValueError", "KeyError", "AttributeError"}

is_recoverable_error(service, err) ==
    IF isinstance(err, recoverable_errors(service)) THEN TRUE
    ELSE IF isinstance(err, non_recoverable_errors) THEN FALSE
    ELSE TRUE

\* consumer.receive() returned a message of the loop's topic.
receive ==
    /\ cpc = "receive"
    /\ \E msg \in Messages :
          /\ msg.topic \in Topics(msg.service)
          /\ message' = msg
    /\ cpc' = "map"
    /\ domain_event' = NoDomainEvent
    /\ error' = "none"
    /\ broker' = <<>>
    /\ invoked' = 0
    /\ UNCHANGED <<vars, outboxVars, lifecycleVars, taskVars, writeVars, timelineVars, uowVars>>

map_message ==
    /\ cpc = "map"
    /\ domain_event' = event_mapper(message)
    /\ cpc' = IF domain_event' = NoDomainEvent THEN "ack_unmapped" ELSE "handle"
    /\ UNCHANGED <<message, error, broker, invoked>>
    /\ UNCHANGED <<vars, outboxVars, lifecycleVars, taskVars, writeVars, timelineVars, uowVars>>

handle_domain_event ==
    /\ cpc = "handle"
    /\ invoked' = invoked + 1
    /\ \/ /\ cpc' = "ack"
          /\ error' = error
       \/ \E err \in ErrorClasses :
            /\ cpc' = "except"
            /\ error' = err
    /\ UNCHANGED <<message, domain_event, broker>>
    /\ UNCHANGED <<vars, outboxVars, lifecycleVars, taskVars, writeVars, timelineVars, uowVars>>

\* await consumer.acknowledge(message) inside the try block.
acknowledge ==
    /\ cpc \in {"ack_unmapped", "ack"}
    /\ \/ /\ broker' = Append(broker, [call |-> "acknowledge", ok |-> TRUE])
          /\ cpc' = "receive"
          /\ error' = error
       \/ \E err \in ErrorClasses :
            /\ broker' = Append(broker, [call |-> "acknowledge", ok |-> FALSE])
            /\ cpc' = "except"
            /\ error' = err
    /\ UNCHANGED <<message, domain_event, invoked>>
    /\ UNCHANGED <<vars, outboxVars, lifecycleVars, taskVars, writeVars, timelineVars, uowVars>>

\* The except block; an exception of its own call leaves _process_message and
\* the loop of _consume_topic goes on to the next message.
on_exception ==
    /\ cpc = "except"
    /\ \E ok \in BOOLEAN :
          broker' = Append(broker,
              [call |-> IF is_recoverable_error(message.service, error)
                        THEN "negative_acknowledge" ELSE "acknowledge",
               ok |-> ok])
    /\ cpc' = "receive"
    /\ UNCHANGED <<message, domain_event, error, invoked>>
    /\ UNCHANGED <<vars, outboxVars, lifecycleVars, taskVars, writeVars, timelineVars, uowVars>>

ConsumerNext ==
    \/ receive
    \/ map_message
    \/ handle_domain_event
    \/ acknowledge
    \/ on_exception

\* ------------------------------------------------- life of the consumers
\* The tasks that start_all_consumers creates, one per topic, each running
\* _consume_topic_with_retry around _consume_topic, and the call of
\* stop_all_consumers. A task is suspended at one of its awaits: "connect",
\* "subscribe", "receive", "process" (inside _process_message),
\* "close_consumer" and "close_client" (the finally block) or "sleep" (the
\* backoff); it ends "done" when its coroutine returns and "cancelled" when
\* CancelledError leaves it. CancelledError is not an Exception, so only a
\* bare except catches it. A client or consumer is "open" from the return
\* of connect or subscribe, "closing" while its close() is awaited, "closed"
\* once close() has returned or raised, and "interrupted" when the task was
\* cancelled inside close(). broken and last describe the open subscription:
\* whether its connection is lost and how the last receive or message ended.
ConsumerServices == {"afiliados", "monitoreo", "colaboraciones"}

TaskIds == {"t1", "t2"}

\* self.consumer_tasks in list order; of the services with several topics
\* two tasks are kept.
consumer_tasks(s) == IF s = "colaboraciones" THEN <<"t1">> ELSE <<"t1", "t2">>

TasksOf(s) == {consumer_tasks(s)[i] : i \in 1..Len(consumer_tasks(s))}

\* max_retries of _consume_topic_with_retry
connect_max_retries == 5

\* the cap of the backoff of a service
backoff_cap(s) == IF s = "colaboraciones" THEN 30 ELSE 60

\* a backoff that grows by two seconds per failure
wait_time_linear(s, retry_count) == Min(backoff_cap(s), 2 * retry_count)

\* wait_time = min(cap, 2 ** retry_count)
wait_time(s, retry_count) == Min(backoff_cap(s), 2 ^ retry_count)

NoTask ==
    [pc |-> "none", retry_count |-> 0, wait_time |-> 0, attempts |-> 0,
     client |-> "None", consumer |-> "None", raising |-> "none",
     broken |-> FALSE, last |-> "none"]

Terminated(k) == k.pc \in {"done", "cancelled"}

\* What the handlers around close() in the finally block catch.
close_catches(s) ==
    CASE s = "afiliados" -> {"Exception", "CancelledError"}
      [] s = "monitoreo" -> {"Exception"}
      [] OTHER -> {}

\* The except block of _consume_topic_with_retry: one more failure, then the
\* backoff, or the end of the task at max_retries.
after_failure(s, k) ==
    LET n == k.retry_count + 1
    IN IF n < connect_max_retries
       THEN [k EXCEPT !.retry_count = n, !.wait_time = wait_time(s, n),
                      !.pc = "sleep", !.raising = "none"]
       ELSE [k EXCEPT !.retry_count = n, !.pc = "done", !.raising = "none"]

\* The end of the finally block: what was being raised goes on, and a
\* normal return of _consume_topic ends the retry loop with break.
after_finally(s, k) ==
    CASE k.raising = "none" -> [k EXCEPT !.pc = "done"]
      [] k.raising = "Exception" -> after_failure(s, k)
      [] OTHER -> [k EXCEPT !.pc = "cancelled"]

\* a loop that does not look at the flag
while_true(running) == TRUE

\* while self.is_running: the condition of the inner loop
while_is_running(running) == running

\* an inner loop that is left when an exception reaches it
loop_check_leaves_on_error(k, running) ==
    IF running /\ k.last # "raised"
    THEN [k EXCEPT !.pc = "receive"]
    ELSE [k EXCEPT !.pc = "close_consumer", !.consumer = "closing",
                   !.broken = FALSE, !.last = "none"]

\* continue, then while self.is_running: the next receive, or the finally
\* block, which starts by closing the consumer.
loop_check(k, running) ==
    IF while_is_running(running)
    THEN [k EXCEPT !.pc = "receive"]
    ELSE [k EXCEPT !.pc = "close_consumer", !.consumer = "closing",
                   !.broken = FALSE, !.last = "none"]

\* Where a failure inside _process_message comes from.
Failures == {"none", "mapper", "handler", "acknowledge", "except_block"}

\* _process_message: its except block catches what the mapper, the handler
\* or the acknowledge raised; what the acknowledge or negative_acknowledge
\* of the except block raises leaves the method.
process_message(failure) ==
    IF failure = "except_block" THEN "raised" ELSE "returned"

start_all_consumers ==
    /\ consumer_service = "none"
    /\ \E s \in ConsumerServices :
          /\ consumer_service' = s
          /\ tasks' = [t \in TaskIds |->
                          IF t \in TasksOf(s)
                          THEN [NoTask EXCEPT !.pc = "connect", !.attempts = 1]
                          ELSE NoTask]
    /\ consumers_running' = TRUE
    /\ UNCHANGED stopper
    /\ UNCHANGED <<vars, outboxVars, consumerVars, taskVars, writeVars, timelineVars, uowVars>>

\* aiopulsar.connect returns a client or raises
connect_returns(t) ==
    /\ tasks[t].pc = "connect"
    /\ \E ok \in BOOLEAN :
          tasks' = [tasks EXCEPT ![t] =
                       IF ok THEN [@ EXCEPT !.client = "open", !.pc = "subscribe"]
                       ELSE after_failure(consumer_service, @)]
    /\ UNCHANGED <<consumer_service, consumers_running, stopper>>
    /\ UNCHANGED <<vars, outboxVars, consumerVars, taskVars, writeVars, timelineVars, uowVars>>

\* client.subscribe returns a consumer or raises
subscribe_returns(t) ==
    /\ tasks[t].pc = "subscribe"
    /\ \E ok \in BOOLEAN :
          tasks' = [tasks EXCEPT ![t] =
                       IF ok
                       THEN loop_check([@ EXCEPT !.consumer = "open"],
                                       consumers_running)
                       ELSE [@ EXCEPT !.raising = "Exception",
                                      !.pc = "close_client",
                                      !.client = "closing"]]
    /\ UNCHANGED <<consumer_service, consumers_running, stopper>>
    /\ UNCHANGED <<vars, outboxVars, consumerVars, taskVars, writeVars, timelineVars, uowVars>>

\* The connection of an open subscription is lost.
connection_lost(t) ==
    /\ tasks[t].pc = "receive"
    /\ ~tasks[t].broken
    /\ tasks' = [tasks EXCEPT ![t] = [@ EXCEPT !.broken = TRUE]]
    /\ UNCHANGED <<consumer_service, consumers_running, stopper>>
    /\ UNCHANGED <<vars, outboxVars, consumerVars, taskVars, writeVars, timelineVars, uowVars>>

\* wait_for(consumer.receive(), timeout) returns a message, times out or
\* raises; on a broken connection it raises.
receive_returns(t) ==
    /\ tasks[t].pc = "receive"
    /\ \E outcome \in (IF tasks[t].broken THEN {"error"}
                       ELSE {"message", "timeout", "error"}) :
          tasks' = [tasks EXCEPT ![t] =
                       IF outcome = "message"
                       THEN [@ EXCEPT !.pc = "process", !.last = outcome]
                       ELSE loop_check([@ EXCEPT !.last = outcome],
                                       consumers_running)]
    /\ UNCHANGED <<consumer_service, consumers_running, stopper>>
    /\ UNCHANGED <<vars, outboxVars, consumerVars, taskVars, writeVars, timelineVars, uowVars>>

\* _process_message returns or raises
process_returns(t) ==
    /\ tasks[t].pc = "process"
    /\ \E failure \in Failures :
          tasks' = [tasks EXCEPT ![t] =
                       loop_check([@ EXCEPT !.last = process_message(failure)],
                                  consumers_running)]
    /\ UNCHANGED <<consumer_service, consumers_running, stopper>>
    /\ UNCHANGED <<vars, outboxVars, consumerVars, taskVars, writeVars, timelineVars, uowVars>>

\* consumer.close() returns or raises
close_consumer_returns(t) ==
    /\ tasks[t].pc = "close_consumer"
    /\ \E ok \in BOOLEAN :
          tasks' = [tasks EXCEPT ![t] =
                       IF ok
                       THEN [@ EXCEPT !.consumer = "closed",
                                      !.pc = "close_client",
                                      !.client = "closing"]
                       ELSE IF "Exception" \in close_catches(consumer_service)
                       THEN [@ EXCEPT !.consumer = "closed",
                                      !.pc = "close_client",
                                      !.client = "closing"]
                       ELSE after_failure(consumer_service,
                                          [@ EXCEPT !.consumer = "closed"])]
    /\ UNCHANGED <<consumer_service, consumers_running, stopper>>
    /\ UNCHANGED <<vars, outboxVars, consumerVars, taskVars, writeVars, timelineVars, uowVars>>

\* client.close() returns or raises
close_client_returns(t) ==
    /\ tasks[t].pc = "close_client"
    /\ \E ok \in BOOLEAN :
          tasks' = [tasks EXCEPT ![t] =
                       IF ok
                       THEN after_finally(consumer_service, [@ EXCEPT !.client = "closed"])
                       ELSE IF "Exception" \in close_catches(consumer_service)
                       THEN after_finally(consumer_service,
                                          [@ EXCEPT !.client = "closed"])
                       ELSE after_failure(consumer_service,
                                          [@ EXCEPT !.client = "closed"])]
    /\ UNCHANGED <<consumer_service, consumers_running, stopper>>
    /\ UNCHANGED <<vars, outboxVars, consumerVars, taskVars, writeVars, timelineVars, uowVars>>

\* asyncio.sleep(wait_time) returns: the while of the retry loop
sleep_returns(t) ==
    /\ tasks[t].pc = "sleep"
    /\ tasks' = [tasks EXCEPT ![t] =
                    IF consumers_running /\ @.retry_count < connect_max_retries
                    THEN [@ EXCEPT !.pc = "connect", !.attempts = @ + 1,
                                   !.client = "None", !.consumer = "None",
                                   !.wait_time = 0]
                    ELSE [@ EXCEPT !.pc = "done", !.wait_time = 0]]
    /\ UNCHANGED <<consumer_service, consumers_running, stopper>>
    /\ UNCHANGED <<vars, outboxVars, consumerVars, taskVars, writeVars, timelineVars, uowVars>>

\* task.cancel(): CancelledError is raised at the await the task is at.
cancel(s, k) ==
    CASE k.pc \in {"connect", "sleep"} -> [k EXCEPT !.pc = "cancelled"]
      [] k.pc = "subscribe" ->
            [k EXCEPT !.raising = "CancelledError", !.pc = "close_client",
                      !.client = "closing"]
      [] k.pc \in {"receive", "process"} ->
            [k EXCEPT !.raising = "CancelledError", !.pc = "close_consumer",
                      !.consumer = "closing", !.broken = FALSE,
                      !.last = "none"]
      [] k.pc = "close_consumer" ->
            IF "CancelledError" \in close_catches(s)
            THEN [k EXCEPT !.consumer = "interrupted", !.pc = "close_client",
                           !.client = "closing"]
            ELSE [k EXCEPT !.consumer = "interrupted", !.pc = "cancelled"]
      [] k.pc = "close_client" ->
            IF "CancelledError" \in close_catches(s)
            THEN after_finally(s, [k EXCEPT !.client = "interrupted"])
            ELSE [k EXCEPT !.client = "interrupted", !.pc = "cancelled"]
      [] OTHER -> k

\* The first task from position i on that is not done, 0 when there is none.
next_not_done(i) ==
    LET later == {j \in i..Len(consumer_tasks(consumer_service)) :
                     ~Terminated(tasks[consumer_tasks(consumer_service)[j]])}
    IN IF later = {} THEN 0 ELSE CHOOSE j \in later : \A m \in later : j <= m

\* The for loop of stop_all_consumers from position i on: the tasks that are
\* done are passed over, the next one is cancelled and awaited.
cancel_from(i) ==
    LET j == next_not_done(i)
    IN IF j = 0
       THEN /\ stopper' = [pc |-> "returned"]
            /\ UNCHANGED tasks
       ELSE /\ stopper' = [pc |-> "await", i |-> j]
            /\ tasks' = [tasks EXCEPT ![consumer_tasks(consumer_service)[j]] =
                            cancel(consumer_service, @)]

stop_all_consumers ==
    /\ consumer_service # "none"
    /\ stopper.pc = "idle"
    /\ consumers_running' = FALSE
    /\ cancel_from(1)
    /\ UNCHANGED consumer_service
    /\ UNCHANGED <<vars, outboxVars, consumerVars, taskVars, writeVars, timelineVars, uowVars>>

\* What the handler around await task does with CancelledError.
on_cancelled(s) == IF s = "monitoreo" THEN "raise" ELSE "continue"

\* await task returns, or raises the CancelledError of the task
task_awaited ==
    /\ stopper.pc = "await"
    /\ LET k == tasks[consumer_tasks(consumer_service)[stopper.i]]
       IN /\ Terminated(k)
          /\ IF k.pc = "cancelled" /\ on_cancelled(consumer_service) = "raise"
             THEN /\ stopper' = [pc |-> "raised"]
                  /\ UNCHANGED tasks
             ELSE cancel_from(stopper.i + 1)
    /\ UNCHANGED <<consumer_service, consumers_running>>
    /\ UNCHANGED <<vars, outboxVars, consumerVars, taskVars, writeVars, timelineVars, uowVars>>

\* stop_processing: the flag is cleared and the dispatcher task, suspended
\* in its sleep or in a publish, is cancelled and awaited.
stop_processing ==
    /\ pc \in {"poll", "publish"}
    /\ is_running
    /\ loops_cancelled < MaxStops
    /\ is_running' = FALSE
    /\ pc' = "stopped"
    /\ event' = NoEvent
    /\ loop_tasks' = loop_tasks - 1
    /\ loops_cancelled' = loops_cancelled + 1
    /\ UNCHANGED <<afiliados, outbox, session, batch, idx, handled, now,
                   env, published, cleaned, unrecorded, crashes>>
    /\ UNCHANGED <<vars, consumerVars, lifecycleVars, writeVars, timelineVars, uowVars>>

LifecycleNext ==
    \/ start_all_consumers
    \/ \E t \in TaskIds : connect_returns(t)
    \/ \E t \in TaskIds : subscribe_returns(t)
    \/ \E t \in TaskIds : connection_lost(t)
    \/ \E t \in TaskIds : receive_returns(t)
    \/ \E t \in TaskIds : process_returns(t)
    \/ \E t \in TaskIds : close_consumer_returns(t)
    \/ \E t \in TaskIds : close_client_returns(t)
    \/ \E t \in TaskIds : sleep_returns(t)
    \/ stop_all_consumers
    \/ task_awaited
    \/ start_processing
    \/ process_pending_events
    \/ cleanup_processed_events
    \/ retry_failed_events
    \/ stop_processing

\* ------------------------------ the update of the command repositories
\* AfiliadoCommandRepository.update and ComisionCommandRepository.update, by
\* two command sessions on the row of one aggregate. The database is the
\* PostgreSQL of DATABASE_URL at its default isolation level, READ COMMITTED:
\* a query sees what is committed when it runs, and the UPDATE of a flush
\* names the row by its primary key.
WriteSessions == {"s1", "s2"}

\* The versions an aggregate handed to update can carry.
MaxVersion == 4

\* Updates committed in one behaviour.
MaxUpdates == 3

NoRow == [absent |-> TRUE]

NoTransaction == [pc |-> "idle"]

\* session.query(Model).filter(and_(Model.id == aggregate.id,
\*     Model.version == aggregate.version - 1)).first()
query_first(row, version) ==
    IF row.version = version - 1 THEN row ELSE NoRow

\* update(aggregate): the row is read with the version filter; when there is
\* none the call raises ValueError; otherwise the fields and the version of
\* the loaded object are assigned, to be written at the commit.
repository_update(s, version) ==
    /\ write_sessions[s].pc = "idle"
    /\ Len(applied) < MaxUpdates
    /\ LET model == query_first(write_row, version)
       IN IF model = NoRow
          THEN write_sessions' =
                   [write_sessions EXCEPT ![s] = [pc |-> "raised"]]
          ELSE write_sessions' =
                   [write_sessions EXCEPT ![s] =
                       [pc |-> "dirty",
                        model |-> [version |-> version, written_by |-> s],
                        read_version |-> model.version,
                        seen |-> Len(applied)]]
    /\ UNCHANGED <<write_row, applied>>
    /\ UNCHANGED <<serviceVars, taskVars, timelineVars, uowVars>>

\* The caller commits: the flush writes the assigned fields of the loaded
\* object with UPDATE ... WHERE id = :id.
write_commit(s) ==
    /\ write_sessions[s].pc = "dirty"
    /\ write_row' = write_sessions[s].model
    /\ applied' = Append(applied,
                     [session |-> s,
                      version |-> write_sessions[s].model.version,
                      read_version |-> write_sessions[s].read_version,
                      seen |-> write_sessions[s].seen,
                      stored |-> write_row.version])
    /\ write_sessions' = [write_sessions EXCEPT ![s] = NoTransaction]
    /\ UNCHANGED <<serviceVars, taskVars, timelineVars, uowVars>>

\* The caller gives the transaction up, after the ValueError or on its own.
write_rollback(s) ==
    /\ write_sessions[s].pc \in {"raised", "dirty"}
    /\ write_sessions' = [write_sessions EXCEPT ![s] = NoTransaction]
    /\ UNCHANGED <<write_row, applied>>
    /\ UNCHANGED <<serviceVars, taskVars, timelineVars, uowVars>>

WriteNext ==
    \/ \E s \in WriteSessions, version \in 1..MaxVersion :
           repository_update(s, version)
    \/ \E s \in WriteSessions : write_commit(s)
    \/ \E s \in WriteSessions : write_rollback(s)

\* ------------------------------------------- the timestamps of the steps
\* SagaLogRepository.log_step on the row of one saga, by two writers whose
\* query, append and commit may interleave in any way. All writers read one
\* clock, which does not go back.
Writers == {"w1", "w2"}

\* The instants the clock goes through.
MaxClock == 3

\* Steps stored in the row in one behaviour.
MaxSteps == 3

NoCall == [pc |-> "idle"]

\* a step put in front of the list
append_first(current_steps, step) == <<step>> \o current_steps

\* current_steps.append(asdict(step))
append(current_steps, step) == Append(current_steps, step)

\* saga_model = session.query(SagaLogModel).filter_by(id=saga_id).first()
log_step_query(w) ==
    /\ writers[w].pc = "idle"
    /\ Len(saga_steps) < MaxSteps
    /\ writers' = [writers EXCEPT ![w] =
                      [pc |-> "loaded", current_steps |-> saga_steps]]
    /\ UNCHANGED <<saga_steps, clock>>
    /\ UNCHANGED <<serviceVars, taskVars, writeVars, uowVars>>

\* The step is built with timestamp=datetime.now(timezone.utc) and appended
\* to the list that was read.
log_step_append(w) ==
    /\ writers[w].pc = "loaded"
    /\ writers' = [writers EXCEPT ![w] =
                      [pc |-> "dirty",
                       current_steps |-> append(writers[w].current_steps,
                                                clock)]]
    /\ UNCHANGED <<saga_steps, clock>>
    /\ UNCHANGED <<serviceVars, taskVars, writeVars, uowVars>>

\* session.commit() stores the list.
log_step_commit(w) ==
    /\ writers[w].pc = "dirty"
    /\ saga_steps' = writers[w].current_steps
    /\ writers' = [writers EXCEPT ![w] = NoCall]
    /\ UNCHANGED clock
    /\ UNCHANGED <<serviceVars, taskVars, writeVars, uowVars>>

\* session.commit() raises: rollback, and the call raises.
log_step_rollback(w) ==
    /\ writers[w].pc = "dirty"
    /\ writers' = [writers EXCEPT ![w] = NoCall]
    /\ UNCHANGED <<saga_steps, clock>>
    /\ UNCHANGED <<serviceVars, taskVars, writeVars, uowVars>>

time_passes ==
    /\ clock < MaxClock
    /\ clock' = clock + 1
    /\ UNCHANGED <<saga_steps, writers>>
    /\ UNCHANGED <<serviceVars, taskVars, writeVars, uowVars>>

\* get_saga returns the steps of the row in the order of the list.
get_saga_steps == [i \in 1..Len(saga_steps) |-> saga_steps[i]]

TimelineNext ==
    \/ \E w \in Writers : log_step_query(w)
    \/ \E w \in Writers : log_step_append(w)
    \/ \E w \in Writers : log_step_commit(w)
    \/ \E w \in Writers : log_step_rollback(w)
    \/ time_passes

\* ------------------------------------ the unit of work of colaboraciones
\* UnidadTrabajoPulsar: batches are registered, then commit sends the
\* integration events of their aggregates; __exit__ calls rollback().
\* An event is told from every other one by its aggregate and its place.
AggregateIds == {"a1", "a2", "a3"}

\* Batches registered in one unit of work.
MaxBatches == 3

Evento(a, i) == [aggregate |-> a, tipo |-> "evento", n |-> i]

EventoCompensacion(a, i) == [aggregate |-> a, tipo |-> "compensacion", n |-> i]

\* arg.eventos of the aggregates that are registered
eventos(a) ==
    CASE a = "a1" -> <<Evento("a1", 1), Evento("a1", 2)>>
      [] a = "a2" -> <<Evento("a2", 1)>>
      [] a = "a3" -> <<>>

\* arg.eventos_compensacion of the aggregates that are registered
eventos_compensacion(a) ==
    CASE a = "a1" -> <<EventoCompensacion("a1", 1)>>
      [] a = "a2" -> <<EventoCompensacion("a2", 1),
                       EventoCompensacion("a2", 2)>>
      [] a = "a3" -> <<EventoCompensacion("a3", 1)>>

Range(q) == {q[i] : i \in 1..Len(q)}

RECURSIVE obtener_eventos(_)
obtener_eventos(batches) ==
    IF batches = <<>> THEN <<>>
    ELSE eventos(Head(batches)) \o obtener_eventos(Tail(batches))

RECURSIVE obtener_eventos_rollback(_)
obtener_eventos_rollback(batches) ==
    IF batches = <<>> THEN <<>>
    ELSE eventos_compensacion(Head(batches))
            \o obtener_eventos_rollback(Tail(batches))

\* every event counts as published
publicados_todos(todos, index) == todos

\* publicados = todos[:index]
publicados(todos, index) == SubSeq(todos, 1, index)

\* The batches whose aggregate has one of the published events.
batches_publicados(batches, index) ==
    LET sent == Range(publicados(obtener_eventos(batches), index))
        has_published(a) == \E e \in sent : e \in Range(eventos(a))
    IN SelectSeq(batches, has_published)

\* The signals of the sends that returned: each send of a compensation
\* event is in a try block of its own, so the ones in failing are skipped.
RECURSIVE delivered(_, _)
delivered(evs, failing) ==
    IF evs = <<>> THEN <<>>
    ELSE delivered(SubSeq(evs, 1, Len(evs) - 1), failing)
            \o (IF Len(evs) \in failing THEN <<>> ELSE <<evs[Len(evs)]>>)

Signal(name, evs) == [i \in 1..Len(evs) |-> [signal |-> name, evento |-> evs[i]]]

\* registrar_batch: the batch is appended and the domain events of its
\* aggregate are sent.
registrar_batch(a) ==
    /\ uow.outcome = "none"
    /\ ~uow.closed
    /\ Len(uow.batches) < MaxBatches
    /\ uow' = [uow EXCEPT !.batches = Append(@, a)]
    /\ signals' = signals \o Signal("Dominio", eventos(a))
    /\ UNCHANGED <<serviceVars, taskVars, writeVars, timelineVars>>

\* rollback(index): the compensation events of the batches it selects are
\* sent one by one, and the batches are cleared.
\* index is <<>> for None and <<n>> for n.
rollback_events(batches, index) ==
    IF index = <<>> THEN obtener_eventos_rollback(batches)
    ELSE obtener_eventos_rollback(batches_publicados(batches, index[1]))

\* commit: the events are sent in order; if the send after the first
\* index ones raises, rollback(index) runs and the error is raised again;
\* if none raises the batches are cleared.
uow_commit ==
    /\ uow.outcome = "none"
    /\ ~uow.closed
    /\ LET todos == obtener_eventos(uow.batches)
       IN \E index \in 0..Len(todos) :
            IF index = Len(todos)
            THEN /\ signals' = signals \o Signal("Integracion", todos)
                 /\ uow' = [batches |-> <<>>, outcome |-> "committed",
                            closed |-> FALSE, registered |-> uow.batches,
                            index |-> index]
            ELSE LET eventos_comp == rollback_events(uow.batches, <<index>>)
                 IN \E failing \in SUBSET (1..Len(eventos_comp)) :
                      /\ signals' =
                            signals
                              \o Signal("Integracion",
                                        SubSeq(todos, 1, index))
                              \o Signal("Compensacion",
                                        delivered(eventos_comp, failing))
                      /\ uow' = [batches |-> <<>>, outcome |-> "raised",
                                 closed |-> FALSE, registered |-> uow.batches,
                                 index |-> index]
    /\ UNCHANGED <<serviceVars, taskVars, writeVars, timelineVars>>

\* __exit__: rollback() without an index.
uow_exit ==
    /\ ~uow.closed
    /\ LET eventos_comp == rollback_events(uow.batches, <<>>)
       IN \E failing \in SUBSET (1..Len(eventos_comp)) :
            signals' = signals \o Signal("Compensacion",
                                         delivered(eventos_comp, failing))
    /\ uow' = [uow EXCEPT !.batches = <<>>, !.closed = TRUE]
    /\ UNCHANGED <<serviceVars, taskVars, writeVars, timelineVars>>

UowNext ==
    \/ \E a \in AggregateIds : registrar_batch(a)
    \/ uow_commit
    \/ uow_exit

\* ----------------------------------------------------------- specification
NoResponse == [route |-> "none"]

Init ==
    /\ sagas = [id \in SagaIds |-> NoSaga]
    /\ task = [id \in SagaIds |-> "none"]
    /\ calls = [id \in SagaIds |-> <<>>]
    /\ response = NoResponse
    /\ acked = [id \in SagaIds |-> <<>>]
    /\ logFaults = 0
    /\ manual = [id \in SagaIds |-> 0]
    /\ outcomes = [id \in SagaIds |-> <<>>]
    /\ afiliados = 0
    /\ outbox = [e \in EventIds |-> NoEvent]
    /\ session = NoWrites
    /\ is_running = FALSE
    /\ pc = "none"
    /\ batch = <<>>
    /\ idx = 1
    /\ event = NoEvent
    /\ handled = {}
    /\ now = 0
    /\ env = "flaky"
    /\ published = [e \in EventIds |-> 0]
    /\ cleaned = {}
    /\ unrecorded = {}
    /\ crashes = 0
    /\ message = NoMessage
    /\ cpc = "receive"
    /\ domain_event = NoDomainEvent
    /\ error = "none"
    /\ broker = <<>>
    /\ invoked = 0
    /\ consumer_service = "none"
    /\ consumers_running = FALSE
    /\ tasks = [t \in TaskIds |-> NoTask]
    /\ stopper = [pc |-> "idle"]
    /\ loop_tasks = 0
    /\ loops_cancelled = 0
    /\ write_row = [version |-> 1, written_by |-> "add"]
    /\ write_sessions = [s \in WriteSessions |-> NoTransaction]
    /\ applied = <<>>
    /\ saga_steps = <<>>
    /\ writers = [w \in Writers |-> NoCall]
    /\ clock = 0
    /\ uow = [batches |-> <<>>, outcome |-> "none", closed |-> FALSE,
              registered |-> <<>>, index |-> 0]
    /\ signals = <<>>

Next ==
    \/ \E id \in SagaIds : complete_affiliate_registration(id)
    \/ \E id \in SagaIds : execute_complete_affiliate_registration(id)
    \/ \E id \in AllIds : get_saga_status(id)
    \/ \E id \in AllIds : trigger_compensation(id)
    \/ GET_sagas_statistics

Spec == Init /\ [][Next]_allVars

\* The outbox of the afiliados-comisiones service, on its own.
OutboxSpec == Init /\ [][OutboxNext]_allVars

\* The outbox with one aggregate that is added and never updated, under a
\* dispatcher loop that is scheduled again and again, a process that is
\* started again after a crash, a clock that advances, and a transport and a
\* database that stop failing.
OutboxFairNext ==
    \/ add
    \/ session_commit
    \/ start_processing
    \/ process_pending_events
    \/ process_single_event
    \/ commit_event
    \/ cleanup_processed_events
    \/ retry_failed_events
    \/ crash
    \/ restart
    \/ tick
    \/ settles

OutboxFairSpec ==
    /\ Init
    /\ [][OutboxFairNext]_allVars
    /\ WF_allVars(start_processing)
    /\ WF_allVars(process_pending_events)
    /\ WF_allVars(process_single_event)
    /\ WF_allVars(commit_event)
    /\ WF_allVars(cleanup_processed_events)
    /\ WF_allVars(retry_failed_events)
    /\ WF_allVars(restart)
    /\ WF_allVars(tick)
    /\ WF_allVars(settles)

\* The dispatcher over rows of every aggregate type, written at several
\* instants, with passes of several batch sizes.
PassSpec == Init /\ [][PassNext]_allVars

\* Two command sessions that update the row of one aggregate.
WriteSpec == Init /\ [][WriteNext]_allVars

\* Two writers that log steps of one saga.
TimelineSpec == Init /\ [][TimelineNext]_allVars

\* One unit of work of colaboraciones, from its batches to its end.
UowSpec == Init /\ [][UowNext]_allVars

\* The event consumers, on their own.
ConsumerSpec == Init /\ [][ConsumerNext]_allVars

\* The consumer tasks of one service and the dispatcher loop, from their
\* start to their shutdown.
LifecycleSpec == Init /\ [][LifecycleNext]_allVars

\* The same, where every await of a task returns in the end and the calls
\* of stop_all_consumers and of the dispatcher go on.
LifecycleFairSpec ==
    /\ Init
    /\ [][LifecycleNext]_allVars
    /\ \A t \in TaskIds :
          /\ WF_allVars(connect_returns(t))
          /\ WF_allVars(subscribe_returns(t))
          /\ WF_allVars(receive_returns(t))
          /\ WF_allVars(process_returns(t))
          /\ WF_allVars(close_consumer_returns(t))
          /\ WF_allVars(close_client_returns(t))
          /\ WF_allVars(sleep_returns(t))
    /\ WF_allVars(task_awaited)
    /\ WF_allVars(process_pending_events)
    /\ WF_allVars(cleanup_processed_events)
    /\ WF_allVars(retry_failed_events)

\* ------------------------------------------------------------- properties
Finished(id) == task[id] \in {"returned_true", "returned_false", "raised"}

\* The execution of the saga ran on its own: every repository write was
\* accepted and no compensate request was issued for the saga.
Undisturbed(id) == logFaults = 0 /\ manual[id] = 0

StepName(i) ==
    <<create_base_content, create_affiliate, create_collaboration, register_metrics>>[i]
StepCall(i) ==
    <<"create_content", "create_affiliate", "create_collaboration", "register_metrics">>[i]
CompensationName(i) == <<compensate_create_content, compensate_create_affiliate>>[i]
CompensationCall(i) == <<"delete_content", "deactivate_affiliate">>[i]

\* Step k is the first step whose gateway call failed.
FirstFailed(id, k) ==
    /\ Len(calls[id]) >= k
    /\ calls[id][k] = [name |-> StepCall(k), ok |-> FALSE]
    /\ \A i \in 1..(k - 1) : calls[id][i] = [name |-> StepCall(i), ok |-> TRUE]

AllStepCallsOk(id) ==
    /\ Len(calls[id]) >= 4
    /\ \A i \in 1..4 : calls[id][i] = [name |-> StepCall(i), ok |-> TRUE]

\* The entries of steps 1..k, the last one FAILED.
ForwardEntries(k) ==
    [i \in 1..k |-> SagaStep(StepName(i), IF i < k THEN "COMPLETED" ELSE "FAILED")]

\* Entries k+1 .. 2k-1 of the list are the compensations of steps k-1 .. 1,
\* each with the outcome of its gateway call.
ReverseCompensations(id, steps, k) ==
    /\ Len(steps) >= 2 * k - 1
    /\ Len(calls[id]) = 2 * k - 1
    /\ \A j \in 1..(k - 1) :
          /\ calls[id][k + j].name = CompensationCall(k - j)
          /\ steps[k + j] = SagaStep(CompensationName(k - j),
                                     IF calls[id][k + j].ok THEN "COMPLETED" ELSE "FAILED")

Marker == SagaStep(compensate_prefix(saga_compensation_started), "COMPENSATING")

C3_CriticalFailureEndsFailed ==
    \A id \in SagaIds : \A k \in 1..3 :
        (Finished(id) /\ FirstFailed(id, k) /\ Undisturbed(id)) =>
            sagas[id].status = "FAILED"

C5_NoDuplicatedCompensationEntry ==
    \A id \in SagaIds :
        (task[id] = "returned_false" /\ logFaults = 0) =>
            \A i, j \in 1..Len(sagas[id].steps) :
                (i < j /\ is_compensation(sagas[id].steps[i].step_name)) =>
                    sagas[id].steps[i].step_name # sagas[id].steps[j].step_name

\* C6: no failure of a gateway call or of a saga-log write leaves
\* execute_complete_affiliate_registration as an exception; the call
\* returns a boolean.
C6_NoExceptionEscapes ==
    \A id \in SagaIds : task[id] # "raised"

\* the fold of a step list with the status update of log_step
RECURSIVE FoldStatus(_, _)
FoldStatus(status, steps) ==
    IF steps = <<>> THEN status
    ELSE FoldStatus(UpdateStatus(Head(steps).step_name, Head(steps).status),
                    Tail(steps))

DerivedStatus(steps) == FoldStatus("STARTED", steps)

C8_ReaderSeesConsistentPair ==
    (response.route = "status" /\ response.code = 200) =>
        response.status = DerivedStatus(response.steps)

C8_Witness ==
    /\ response.route = "status" /\ response.code = 200
    /\ response.status = "FAILED"
    /\ Len(response.steps) = 3
    /\ \E id \in SagaIds : task[id] = "gw_c2" /\ sagas[id].steps = response.steps

IsPrefix(s, t) == Len(s) <= Len(t) /\ SubSeq(t, 1, Len(s)) = s

\* C9: the step list of a saga only grows by appending, also when compensate
\* requests interleave with the orchestrator: every stored list is a prefix
\* of every later one, and the step of every log_step call that returned
\* without error is in the list.
C9_StepListIsAppendOnly ==
    /\ [][\A id \in SagaIds :
             sagas[id] # NoSaga =>
                 /\ sagas'[id] # NoSaga
                 /\ IsPrefix(sagas[id].steps, sagas'[id].steps)]_vars
    /\ [](\A id \in SagaIds :
             sagas[id] # NoSaga => sagas[id].steps = acked[id])

C9_Witness ==
    \E id \in SagaIds :
        /\ sagas[id] # NoSaga
        /\ \E i \in 1..(Len(sagas[id].steps) - 1) :
              /\ sagas[id].steps[i] = Marker
              /\ sagas[id].steps[i + 1] = SagaStep(create_affiliate, "COMPLETED")
        /\ manual[id] = 1

\* C10: the stored status is COMPLETED exactly when the step list contains
\* the saga_completed_final entry with status COMPLETED.
C10_CompletedIffFinalEntry ==
    \A id \in SagaIds :
        sagas[id] # NoSaga =>
            (sagas[id].status = "COMPLETED"
                <=> \E i \in 1..Len(sagas[id].steps) :
                        sagas[id].steps[i] = SagaStep(saga_completed_final, "COMPLETED"))

\* ------------------------------------------------------ outbox properties
\* The events the committed version v of the aggregate has announced.
EventsOf(v) == IF v = 0 THEN {} ELSE IF v = 1 THEN {"e1"} ELSE {"e1", "e2"}

HasStatus(e, status) == Stored(e) /\ outbox[e].status = status

\* C11: the row change of an add or update and the outbox rows of its events
\* are committed together: the stored version of the aggregate and the
\* outbox rows (those the cleanup pass deleted included) always agree, and
\* the only step that changes either is the commit of the session, which
\* stores the version and all the events of the session; a rollback or a
\* crash stores neither.
C11_RowAndOutboxCommitTogether ==
    /\ [](\A e \in EventIds :
            (Stored(e) \/ e \in cleaned) <=> e \in EventsOf(afiliados))
    /\ [][(afiliados' # afiliados \/ \E e \in EventIds : ~Stored(e) /\ Stored(e)')
            => /\ session # NoWrites
               /\ session' = NoWrites
               /\ afiliados' = session.version
               /\ \A e \in session.events : Stored(e)']_allVars

C11_Witness ==
    /\ afiliados = 2
    /\ Stored("e1")
    /\ Stored("e2")
    /\ crashes = 1
    /\ session = [version |-> 0, events |-> {}]

\* The event is in the hands of a pass that has published it and has not yet
\* committed its status.
InFlight(e) == pc = "commit" /\ batch[idx] = e

\* C12 as stated: a committed pending event eventually reaches processed.
C12_Original ==
    \A e \in EventIds : HasStatus(e, "pending") ~> HasStatus(e, "processed")

\* C12: a crash leaves the outbox table as it was, so a committed pending
\* event is still pending after the restart; and an event that is pending,
\* not in the hands of a pass, at a time from which the transport accepts
\* and the commits succeed, eventually reaches processed.
C12_PendingEventIsDurable ==
    /\ [][pc' = "crashed" => outbox' = outbox]_allVars
    /\ \A e \in EventIds :
          (HasStatus(e, "pending") /\ env = "settled" /\ ~InFlight(e))
              ~> HasStatus(e, "processed")

C12_Witness ==
    /\ crashes = 1
    /\ pc = "poll"
    /\ HasStatus("e1", "processed")
    /\ published["e1"] = 1
    /\ env = "settled"

Exhausted(e) == HasStatus(e, "failed") /\ outbox[e].retry_count >= max_retries

\* C13: a failed event whose retry_count has reached max_retries is never
\* reset to pending: no step, the retry pass included, takes it out of
\* status failed or lowers its retry_count below max_retries.
C13_ExhaustedEventStaysFailed ==
    [][\A e \in EventIds : Exhausted(e) => Exhausted(e)']_allVars

\* The retry pass has gone over an event with exactly max_retries failures.
C13_Witness ==
    /\ HasStatus("e1", "failed")
    /\ outbox["e1"].retry_count = max_retries
    /\ pc = "poll"
    /\ crashes = 0
    /\ now = 32

\* A step of the loop that is a whole retry pass.
RetryPass == pc = "retry" /\ pc' = "poll"

\* The eligible retry time of a failed event has elapsed.
Elapsed(e) ==
    outbox[e].created_at + Min(maxBackoff, 2 ^ outbox[e].retry_count) <= now

\* C14 as stated, for a retry pass whose commit the database accepts: every
\* failed event below max_retries whose eligible retry time has elapsed is
\* pending after the pass, and one whose time has not elapsed is failed.
C14_Original ==
    [][(RetryPass /\ env = "settled") =>
          \A e \in EventIds :
             (HasStatus(e, "failed") /\ outbox[e].retry_count < max_retries) =>
                IF Elapsed(e) THEN HasStatus(e, "pending")'
                ELSE HasStatus(e, "failed")']_allVars

\* C14: a retry pass either changes nothing (its commit raised), or it resets
\* to pending exactly the failed events below max_retries that were created
\* less than a day ago and whose eligible retry time has elapsed, and leaves
\* every other row as it was.
C14_RetryPassResetsDueEvents ==
    [][RetryPass =>
          \/ env = "flaky" /\ outbox' = outbox
          \/ \A e \in EventIds :
                outbox'[e] =
                   IF /\ HasStatus(e, "failed")
                      /\ outbox[e].retry_count < max_retries
                      /\ outbox[e].created_at > now - Day
                      /\ Elapsed(e)
                   THEN [outbox[e] EXCEPT !.status = "pending"]
                   ELSE outbox[e]]_allVars

\* The retry pass has reset an event at the instant its first backoff ended,
\* and has left the other event, two failures old, failed.
C14_Witness ==
    /\ HasStatus("e1", "pending")
    /\ outbox["e1"].retry_count = 1
    /\ HasStatus("e2", "failed")
    /\ outbox["e2"].retry_count = 2
    /\ now = 2
    /\ pc = "poll"

\* A step of the loop that records the outcome of the publish of an event and
\* changes the event's row.
Recorded(e) == InFlight(e) /\ pc' # "crashed" /\ outbox'[e] # outbox[e]

\* C15: a pending event that a pass records becomes processed, with
\* processed_at set and retry_count unchanged, if its publish succeeded, and
\* failed with retry_count one higher if its publish failed; and no event is
\* processed without a publish of it having succeeded.
C15_OutcomeIsRecordedOnce ==
    /\ [](\A e \in EventIds : HasStatus(e, "processed") => published[e] >= 1)
    /\ [][\A e \in EventIds : Recorded(e) =>
            IF event.status = "processed"
            THEN outbox'[e] = [outbox[e] EXCEPT !.status = "processed",
                                                !.processed_at = event.processed_at]
            ELSE outbox'[e] = [outbox[e] EXCEPT !.status = "failed",
                                                !.retry_count = @ + 1]]_allVars

BatchEvents == {batch[i] : i \in 1..Len(batch)}

\* A step of the dispatcher loop.
LoopStep ==
    \/ process_pending_events
    \/ process_single_event
    \/ commit_event
    \/ cleanup_processed_events
    \/ retry_failed_events

C18_OnlyCleanupDeletesOldProcessed ==
    [][\A e \in EventIds : (Stored(e) /\ ~Stored(e)') =>
          /\ pc = "cleanup"
          /\ pc' = "retry"
          /\ outbox[e].status = "processed"
          /\ outbox[e].processed_at < now - retention_days * Day]_allVars

\* The cleanup pass deleted the event processed before the retention limit
\* and kept the one processed exactly at the limit.
C18_Witness ==
    /\ cleaned = {"e1"}
    /\ HasStatus("e2", "processed")
    /\ outbox["e2"].processed_at = 32
    /\ now = retention_days * Day + 32
    /\ pc = "retry"

\* ---------------------------------------------------- consumer properties
\* The consumer is through with the message it received last.
Done == cpc = "receive" /\ message # NoMessage

Called(call) == \E i \in 1..Len(broker) : broker[i].call = call

\* C19: a message for which the mapper returned None is acknowledged, the
\* domain handler is not invoked for it, and it is never negatively
\* acknowledged.
C19_UnmappedIsAcknowledgedOnly ==
    (Done /\ domain_event = NoDomainEvent) =>
        /\ invoked = 0
        /\ Called("acknowledge")
        /\ ~Called("negative_acknowledge")

\* The classes the claim calls non-recoverable, subclasses included.
DroppedClasses == {"ValueError", "JSONDecodeError", "KeyError", "AttributeError"}

\* C20: every message the consumer is through with got exactly one call,
\* acknowledge or negative_acknowledge; a mapped message whose handler
\* succeeded got acknowledge, and one whose handler failed got acknowledge if
\* the error is of a non-recoverable class and negative_acknowledge if it is
\* of a recoverable or of an unknown class.
C20_ExactlyOneAckOrNack ==
    Done =>
        /\ Len(broker) = 1
        /\ (domain_event # NoDomainEvent /\ error = "none") =>
               broker[1].call = "acknowledge"
        /\ (domain_event # NoDomainEvent /\ error # "none") =>
               broker[1].call = IF error \in DroppedClasses
                                THEN "acknowledge" ELSE "negative_acknowledge"

\* C24: a saga is stored by the start route as STARTED with an empty step
\* list, and the route answers with the saga id and status STARTED in the
\* same step: while no row of the saga is stored its task does not exist, no
\* gateway call of it has been made and no log_step of it has returned, and
\* when the row appears no gateway call has returned and no step is logged.
C24_StartedBeforeAnyStep ==
    /\ [](\A id \in SagaIds :
             sagas[id] = NoSaga =>
                 task[id] = "none" /\ calls[id] = <<>> /\ acked[id] = <<>>)
    /\ [][\A id \in SagaIds :
             (sagas[id] = NoSaga /\ sagas'[id] # NoSaga) =>
                 /\ sagas'[id] = [status |-> "STARTED", steps |-> <<>>]
                 /\ response' = [route |-> "start", id |-> id, code |-> 200,
                                 status |-> "STARTED"]
                 /\ calls'[id] = <<>>
                 /\ acked'[id] = <<>>]_vars

C24_Witness ==
    \E id \in SagaIds :
        /\ response = [route |-> "start", id |-> id, code |-> 200,
                       status |-> "STARTED"]
        /\ sagas[id] # NoSaga /\ sagas[id].steps = <<>>
        /\ task[id] = "gw_1"
        /\ calls[id] = <<>>

\* C25: the status route answers 404 exactly when no saga with the id was
\* started: a request for an id with no stored row is answered 404, and a
\* request for a stored saga is answered 200 with its status and steps.
C25_FoundExactlyWhenStarted ==
    [][(response' # response /\ response'.route = "status") =>
          /\ response'.code = 404 <=> first(response'.id) = NoSaga
          /\ response'.code = 200 =>
                /\ response'.status = first(response'.id).status
                /\ response'.steps = first(response'.id).steps]_vars

RECURSIVE SumOver(_, _)
SumOver(f, S) ==
    IF S = {} THEN 0
    ELSE LET x == CHOOSE y \in S : TRUE
         IN f[x] + SumOver(f, S \ {x})

\* C26: the statistics route answers with total_sagas, by_status and
\* by_type counted from the stored sagas: total_sagas is the number of
\* stored sagas, by_status[s] the number with stored status s, by_type[t]
\* the number of type t, and each of the two groups of counts sums to
\* total_sagas.
C26_StatisticsAreCounts ==
    [][(response' # response /\ response'.route = "statistics") =>
          LET body == response'.body
          IN /\ {"total_sagas", "by_status", "by_type"} \subseteq DOMAIN body
             /\ body.total_sagas = Cardinality(StoredIds)
             /\ \A s \in SagaStatus :
                   body.by_status[s] =
                       Cardinality({id \in StoredIds : sagas[id].status = s})
             /\ body.by_type[CompleteAffiliateRegistration] =
                    Cardinality(StoredIds)
             /\ SumOver(body.by_status, DOMAIN body.by_status) = body.total_sagas
             /\ SumOver(body.by_type, DOMAIN body.by_type) = body.total_sagas]_vars

GatewayPc(i) == <<"gw_1", "gw_2", "gw_3", "gw_4">>[i]

\* The gateway call of step i has been issued: it is in flight or returned.
Issued(id, i) ==
    \/ task[id] = GatewayPc(i)
    \/ \E j \in 1..Len(calls[id]) : calls[id][j].name = StepCall(i)

\* C27: the steps of a saga run one after another in program order: when
\* the gateway call of step i+1 has been issued, the call of step i has
\* returned success and its COMPLETED entry has been logged and is stored;
\* while the call of a step is in flight, every call issued before it has
\* returned, and the returned step calls are in step order.
C27_StepsRunInProgramOrder ==
    \A id \in SagaIds :
        /\ \A i \in 1..3 :
              Issued(id, i + 1) =>
                  /\ Len(calls[id]) >= i
                  /\ calls[id][i] = [name |-> StepCall(i), ok |-> TRUE]
                  /\ \E j \in 1..Len(acked[id]) :
                        acked[id][j] = SagaStep(StepName(i), "COMPLETED")
                  /\ \E j \in 1..Len(sagas[id].steps) :
                        sagas[id].steps[j] = SagaStep(StepName(i), "COMPLETED")
        /\ \A i \in 1..4 : task[id] = GatewayPc(i) => Len(calls[id]) = i - 1
        /\ \A i \in 1..4 : \A j \in 1..Len(calls[id]) :
              calls[id][j].name = StepCall(i) => j = i

C27_Witness ==
    \E id \in SagaIds :
        /\ task[id] = "gw_4"
        /\ Len(calls[id]) = 3
        /\ manual[id] = 1
        /\ logFaults = 1

\* the positions of the entries of a step name in a step list
Entries(steps, step_name) ==
    {i \in 1..Len(steps) : steps[i].step_name = step_name}

\* the positions of the calls of a name among the returned gateway calls
CallsOf(id, name) == {i \in 1..Len(calls[id]) : calls[id][i].name = name}

EntryName(name) ==
    CASE name = "create_content" -> create_base_content
      [] name = "create_affiliate" -> create_affiliate
      [] name = "create_collaboration" -> create_collaboration
      [] name = "register_metrics" -> register_metrics
      [] name = "delete_content" -> compensate_create_content
      [] name = "deactivate_affiliate" -> compensate_create_affiliate

\* the entries that a sequence of returned calls leaves, by name and success
LogOf(c) ==
    [i \in 1..Len(c) |->
        SagaStep(EntryName(c[i].name), IF c[i].ok THEN "COMPLETED" ELSE "FAILED")]

\* the gateway calls of a saga whose first failing step is k
CallsWhenFailed(k) ==
    IF k = 4 THEN [i \in 1..4 |-> StepCall(i)]
    ELSE [i \in 1..(2 * k - 1) |->
             IF i <= k THEN StepCall(i) ELSE CompensationCall(2 * k - i)]

\* C29: the kind of a gateway failure is not observable in the saga. Every
\* outcome other than a 2xx response makes the call fail; and in an execution
\* on its own the step list (names and statuses), the gateway calls made and
\* the stored status are determined by which calls failed, not by how: the
\* list is the entry of each returned call in order plus the closing entry,
\* the calls are those of the first failing step, and the status is
\* COMPENSATING after a critical failure and COMPLETED otherwise.
C29_FailureKindIsNotObserved ==
    \A id \in SagaIds :
        /\ Len(outcomes[id]) = Len(calls[id])
        /\ \A i \in 1..Len(calls[id]) :
              calls[id][i].ok <=> outcomes[id][i] = "ok"
        /\ (Finished(id) /\ Undisturbed(id)) =>
              /\ sagas[id].steps =
                     LogOf(calls[id]) \o
                     <<IF task[id] = "returned_true"
                       THEN SagaStep(saga_completed_final, "COMPLETED")
                       ELSE Marker>>
              /\ \A k \in 1..4 :
                    FirstFailed(id, k) =>
                        /\ [i \in 1..Len(calls[id]) |-> calls[id][i].name] =
                               CallsWhenFailed(k)
                        /\ sagas[id].status =
                               IF k = 4 THEN "COMPLETED" ELSE "COMPENSATING"
                        /\ task[id] =
                               IF k = 4 THEN "returned_true" ELSE "returned_false"

C29_Witness ==
    \E id \in SagaIds :
        /\ Finished(id) /\ Undisturbed(id)
        /\ outcomes[id] = <<"ok", "timeout", "http_status">>
        /\ Len(sagas[id].steps) = 4

\* C21: no failure while a message is processed ends the subscription loop
\* of its topic. While is_running stays true, a task that is processing a
\* message goes on to the next receive whatever the mapper, the handler, the
\* acknowledge or the negative acknowledge raised, and a task whose receive
\* timed out or raised receives again; the consumer and the client stay open
\* and no connection failure is counted.
C21_FailureDoesNotEndSubscription ==
    [][\A t \in TaskIds :
          (/\ tasks[t].pc \in {"receive", "process"}
           /\ tasks'[t] # tasks[t]
           /\ consumers_running') =>
              /\ tasks[t].pc = "process" => tasks'[t].pc = "receive"
              /\ tasks[t].pc = "receive" => tasks'[t].pc \in {"receive", "process"}
              /\ tasks'[t].consumer = "open"
              /\ tasks'[t].client = "open"
              /\ tasks'[t].retry_count = tasks[t].retry_count]_allVars

C21_Witness ==
    \E t \in TaskIds :
        /\ consumers_running
        /\ tasks[t].pc = "receive"
        /\ tasks[t].last = "raised"
        /\ tasks[t].consumer = "open"

\* C22: a task makes at most max_retries (5) connection attempts; while it
\* waits after its n-th failure the wait is min(60, 2^n) seconds; and after
\* the max_retries-th failure the task is done and never changes again.
C22_ConnectionAttemptsAreBounded ==
    /\ [](\A t \in TaskIds :
             /\ tasks[t].attempts <= connect_max_retries
             /\ tasks[t].retry_count <= connect_max_retries
             /\ tasks[t].pc = "sleep" =>
                   /\ tasks[t].retry_count \in 1..(connect_max_retries - 1)
                   /\ tasks[t].wait_time = Min(60, 2 ^ tasks[t].retry_count)
             /\ tasks[t].retry_count = connect_max_retries =>
                   tasks[t].pc = "done")
    /\ [][\A t \in TaskIds :
             tasks[t].retry_count = connect_max_retries =>
                 tasks'[t] = tasks[t]]_allVars

C22_Witness ==
    /\ consumers_running
    /\ tasks["t1"].retry_count = connect_max_retries
    /\ tasks["t1"].attempts = connect_max_retries
    /\ tasks["t1"].pc = "done"
    /\ tasks["t2"].pc = "sleep"
    /\ tasks["t2"].wait_time = 16

\* close() has been called on what the task opened
Released(k) == k.client # "open" /\ k.consumer # "open"

C30_BrokenSubscriptionIsLeft ==
    [][\A t \in TaskIds :
          (/\ tasks[t].pc = "receive"
           /\ tasks[t].broken
           /\ tasks'[t] # tasks[t]
           /\ consumers_running') =>
              tasks'[t].pc = "close_consumer"]_allVars

\* The domain handler ran once for the message and returned: the call that
\* followed it is the acknowledge of the try block.
HandlerSucceeded ==
    /\ domain_event # NoDomainEvent
    /\ invoked = 1
    /\ Len(broker) >= 1
    /\ broker[1].call = "acknowledge"
    /\ (error = "none" \/ Len(broker) = 2)

\* C38: a message whose domain handler completed successfully is never
\* negatively acknowledged, also when the acknowledge call that follows the
\* handler raises.
C38_HandledMessageIsNotNacked ==
    (Done /\ HandlerSucceeded) => ~Called("negative_acknowledge")

\* The pass makes a publish attempt of event e in this step.
Attempt(e) == pc = "publish" /\ pc' = "commit" /\ batch[idx] = e

\* C37: the retry_count of a stored outbox event never exceeds max_retries,
\* and a publish attempt is made only of an event whose retry_count is below
\* max_retries, so that an event whose publish always fails, each failure
\* counted once, is attempted at most max_retries times.
C37_RetryCountIsBounded ==
    /\ [](\A e \in EventIds : Stored(e) => outbox[e].retry_count <= max_retries)
    /\ [][\A e \in EventIds :
             Attempt(e) => outbox[e].retry_count < max_retries]_allVars

\* The changes of status the dispatcher makes on a stored event.
StatusChanges ==
    {<<"pending", "processed">>, <<"pending", "failed">>, <<"failed", "pending">>}

\* C36: the status of a stored outbox event changes only from pending to
\* processed, from pending to failed and from failed to pending; a processed
\* event keeps its status until it is deleted, and no publish attempt is made
\* of it; the retry pass changes the status only and leaves retry_count,
\* created_at and processed_at as they are.
C36_StatusChangesAndRetryPass ==
    /\ [][\A e \in EventIds :
             (Stored(e) /\ outbox'[e] # NoEvent
                        /\ outbox'[e].status # outbox[e].status) =>
                 <<outbox[e].status, outbox'[e].status>> \in StatusChanges]_allVars
    /\ [][\A e \in EventIds :
             (Stored(e) /\ outbox[e].status = "processed") =>
                 /\ ~Attempt(e)
                 /\ published'[e] = published[e]
                 /\ outbox'[e] \in {outbox[e], NoEvent}]_allVars
    /\ [][\A e \in EventIds :
             (pc = "retry" /\ pc' = "poll" /\ outbox'[e] # outbox[e]) =>
                 /\ outbox[e].status = "failed"
                 /\ outbox'[e] = [outbox[e] EXCEPT !.status = "pending"]]_allVars

C36_Witness ==
    \E e \in EventIds :
        /\ Stored(e)
        /\ outbox[e].status = "processed"
        /\ outbox[e].retry_count >= 1
        /\ pc = "retry"

\* The events of the batch of the pass in hand that it has not been through.
Ahead == {batch[i] : i \in {j \in 1..Len(batch) : j >= idx}}

\* C31: the batch that a pass called with batch_size n claims has at most n
\* events, each stored with status pending at that moment, no event twice,
\* in non-decreasing order of created_at; the events of the batch that the
\* pass has not been through yet are still pending; and a publish attempt is
\* made only of the event of the batch the pass is at, whose status is
\* pending, so never of an event that was failed or processed when the batch
\* was claimed.
C31_BatchIsBoundedPendingAndOrdered ==
    /\ [][\A n \in BatchSizes :
             process_pending_events_of(n) =>
                 /\ Len(batch') <= n
                 /\ \A i \in 1..Len(batch') :
                       /\ Stored(batch'[i])
                       /\ outbox[batch'[i]].status = "pending"
                 /\ \A i, j \in 1..Len(batch') :
                       i < j =>
                          /\ batch'[i] # batch'[j]
                          /\ outbox[batch'[i]].created_at
                                <= outbox[batch'[j]].created_at]_allVars
    /\ [](pc \in {"publish", "commit"} =>
             \A e \in Ahead : Stored(e) /\ outbox[e].status = "pending")
    /\ [][\A e \in EventIds :
             Attempt(e) => Stored(e) /\ outbox[e].status = "pending"]_allVars

C31_Witness ==
    /\ pc = "publish"
    /\ batch = <<"e1">>
    /\ outbox["e1"].created_at = 0
    /\ outbox["e1"].retry_count = 1
    /\ Stored("e2")
    /\ outbox["e2"].status = "pending"
    /\ outbox["e2"].created_at = 2

\* The stored events whose aggregate type has no topic.
Unmapped(e) ==
    Stored(e) /\ outbox[e].aggregate_type \notin DOMAIN topic_mapping

C39_UpdateIsGuardedByVersion ==
    /\ [](\A i \in 1..Len(applied) :
             /\ applied[i].read_version = applied[i].version - 1
             /\ applied[i].stored = applied[i].version - 1)
    /\ [](\A i, j \in 1..Len(applied) :
             (i < j /\ applied[j].seen < i)
                 => applied[i].read_version # applied[j].read_version)
    /\ [][\A s \in WriteSessions :
             (write_sessions[s].pc = "idle"
                /\ write_sessions'[s].pc = "raised")
                 => UNCHANGED <<write_row, applied>>]_allVars

\* C33: the steps returned for a saga are in chronological order: of two
\* consecutive steps the later one is not earlier than the one before it,
\* however the writers of the saga interleave.
C33_StepsAreChronological ==
    \A i \in 1..(Len(get_saga_steps) - 1) :
        get_saga_steps[i] <= get_saga_steps[i + 1]

C33_Witness ==
    /\ saga_steps = <<0, 2>>
    /\ writers["w2"].pc = "dirty"
    /\ writers["w2"].current_steps = <<0, 1>>

CompensationSignals == SelectSeq(signals, LAMBDA g : g.signal = "Compensacion")

IntegrationSignals == SelectSeq(signals, LAMBDA g : g.signal = "Integracion")

\* C34: when commit of UnidadTrabajoPulsar fails at a send after others
\* went through, every compensation event that is sent belongs to an
\* aggregate one of whose events was published, the batches are cleared and
\* the error is raised again; when every send goes through no compensation
\* event is sent and the batches are cleared.
C34_CompensationOnlyForPublished ==
    /\ uow.outcome = "raised" =>
          /\ uow.batches = <<>>
          /\ uow.index < Len(obtener_eventos(uow.registered))
          /\ IntegrationSignals =
                Signal("Integracion",
                       SubSeq(obtener_eventos(uow.registered), 1, uow.index))
          /\ \A i \in 1..Len(CompensationSignals) :
                \E j \in 1..Len(IntegrationSignals) :
                    IntegrationSignals[j].evento.aggregate =
                        CompensationSignals[i].evento.aggregate
    /\ uow.outcome = "committed" =>
          /\ uow.batches = <<>>
          /\ CompensationSignals = <<>>
          /\ IntegrationSignals =
                Signal("Integracion", obtener_eventos(uow.registered))

C34_Witness ==
    /\ uow.outcome = "raised"
    /\ uow.registered = <<"a1", "a2", "a3">>
    /\ uow.index = 1
    /\ CompensationSignals =
          Signal("Compensacion", <<EventoCompensacion("a1", 1)>>)

\* C40: an OutboxService has at most one processing loop at a time: a call
\* of start_processing while is_running is set starts no second loop, and
\* after stop_processing and then start_processing one loop is running.
C40_AtMostOneProcessingLoop ==
    /\ [](loop_tasks <= 1)
    /\ [](is_running => loop_tasks = 1)
    /\ [][is_running => loop_tasks' <= loop_tasks]_allVars
    /\ [][(pc = "stopped" /\ is_running') => loop_tasks' = 1]_allVars

C40_Witness ==
    /\ loops_cancelled = 1
    /\ is_running
    /\ pc = "poll"
    /\ loop_tasks = 1
\* The gateway call that undoes what a step's call created; the clients
\* have none for create_collaboration and register_metrics.
compensation_of(name) ==
    CASE name = "create_content" -> "delete_content"
      [] name = "create_affiliate" -> "deactivate_affiliate"
      [] OTHER -> "no such call"

StepCalls == {"create_content", "create_affiliate", "create_collaboration",
              "register_metrics"}

\* C35: when a saga has ended and is not COMPLETED, every step whose
\* gateway call returned with success has had a compensation call made for
\* it afterwards, also when what failed was a write of the saga log after
\* the gateway call, or an exception caught by the outer handler.
C35_SuccessfulStepsAreCompensated ==
    \A id \in SagaIds :
        (/\ task[id] \in {"returned_false", "raised"}
         /\ sagas[id] # NoSaga
         /\ sagas[id].status # "COMPLETED")
        => \A i \in 1..Len(calls[id]) :
              (calls[id][i].ok /\ calls[id][i].name \in StepCalls)
                  => \E j \in (i + 1)..Len(calls[id]) :
                        calls[id][j].name = compensation_of(calls[id][i].name)
====
